---- MODULE Spec2Model ----
(***************************************************************************)
(* Alert engine of the uptime monitor (internal/alerting/engine.go).       *)
(*                                                                         *)
(* Workers of the scheduler call Engine.HandleResult concurrently.  One    *)
(* call is modelled in the steps at which other calls can interleave:      *)
(*   Begin     resolveRoute, early return, now := time.Now()               *)
(*   Lock      e.mu.Lock()                                                 *)
(*   Critical  the code between Lock and Unlock, and the Unlock            *)
(*   Dispatch  e.dispatch(route.notify, svc, payload)                      *)
(* Time is counted in minutes; 0 is the zero time.Time.                    *)
(*                                                                         *)
(* Three specifications share the module:                                  *)
(*   Spec        the alert engine under concurrent HandleResult calls      *)
(*   RouterSpec  NewEngine and resolveRoute over bounded configurations    *)
(*   SchedSpec   the scheduler (coordinator, worker pool, UpdateServices), *)
(*               FairSchedSpec being SchedSpec under fair scheduling       *)
(***************************************************************************)
EXTENDS Integers, Sequences, FiniteSets, Bags, TLC

\* ---- bounds of the model ----
MaxCalls == 4        \* HandleResult calls in one run
MaxTime == 2         \* the clock runs 1..MaxTime
NumWorkers == 2      \* concurrent callers of HandleResult
MaxThreshold == 3    \* configured failure_threshold ranges over 0..MaxThreshold
MaxRoutes == 3       \* routes of a configuration handed to resolveRoute
MaxUpdates == 2      \* UpdateServices calls in one run
MaxPool == 2         \* the scheduler's worker_count ranges over 0..MaxPool
MaxJitter == 2       \* the scheduler's jitter is 0 or MaxJitter

Workers == 1..NumWorkers

\* ---- AlertState ----
StateUnknown == "UNKNOWN"
StateUp == "UP"
StateDown == "DOWN"

ZeroTime == 0

\* ---- strings and durations of the configuration ----
TrimSpace(s) ==
  CASE s = " " -> ""
    [] s = " a " -> "a"
    [] s = " ops " -> "ops"
    [] OTHER -> s

\* time.ParseDuration on the cooldown strings used here, in minutes
ParseDuration(s) ==
  CASE s = "1m" -> [err |-> FALSE, d |-> 1]
    [] s = "2m" -> [err |-> FALSE, d |-> 2]
    [] s = "0s" -> [err |-> FALSE, d |-> 0]
    [] s = "-1m" -> [err |-> FALSE, d |-> -1]
    [] OTHER -> [err |-> TRUE, d |-> 0]

CooldownStrings == {"", " ", "abc", "-1m", "0s", "1m"}

RawPolicies ==
  [FailureThreshold : 0..MaxThreshold, Cooldown : CooldownStrings, RecoveryAlert : BOOLEAN]

\* variant: the configured threshold is taken as it is
compilePolicyNoDefault(p) ==
  LET parsed == ParseDuration(p.Cooldown)
      cd == IF TrimSpace(p.Cooldown) # "" /\ ~parsed.err /\ parsed.d > 0
              THEN parsed.d ELSE 0
  IN [failureThreshold |-> p.FailureThreshold, cooldown |-> cd,
      recoveryAlert |-> p.RecoveryAlert]

compilePolicy(p) ==
  LET thr == IF p.FailureThreshold > 0 THEN p.FailureThreshold ELSE 1
      parsed == ParseDuration(p.Cooldown)
      cd == IF TrimSpace(p.Cooldown) # "" /\ ~parsed.err /\ parsed.d > 0
              THEN parsed.d ELSE 0
  IN [failureThreshold |-> thr, cooldown |-> cd, recoveryAlert |-> p.RecoveryAlert]

RECURSIVE trimAll(_)
trimAll(in) ==
  IF in = <<>> THEN <<>>
  ELSE LET s == TrimSpace(Head(in))
       IN IF s # "" THEN <<s>> \o trimAll(Tail(in)) ELSE trimAll(Tail(in))

\* variant: the service ids of the match are not trimmed
compileRouteNoTrim(r) ==
  [matchServiceIDs |-> r.Match, notify |-> trimAll(r.Notify),
   policy |-> compilePolicy(r.Policy)]

compileRoute(r) ==
  [matchServiceIDs |-> trimAll(r.Match), notify |-> trimAll(r.Notify),
   policy |-> compilePolicy(r.Policy)]

\* NewEngine: the compiled routes, in configuration order
NewEngine(cfg) == [i \in 1..Len(cfg) |-> compileRoute(cfg[i])]

\* ---- the configurations of the model ----
ServiceIDs == {"a", "c", "d"}

\* channel map of the configuration: "ops" is a discord channel, "mail" an
\* email channel; no channel is named "gone"
channels ==
  [n \in {"ops", "mail"} |->
     IF n = "ops" THEN [Type |-> "discord", WebhookURL |-> "https://hook"]
     ELSE [Type |-> "email", WebhookURL |-> ""]]

\* "a" is matched by two routes, "c" by a route without channels, "d" by none
RawConfig(p) ==
  << [Match |-> <<"a">>, Policy |-> p, Notify |-> <<"ops">>],
     [Match |-> <<" a ">>,
      Policy |-> [FailureThreshold |-> 0, Cooldown |-> "", RecoveryAlert |-> FALSE],
      Notify |-> <<" ops ", " ">>],
     [Match |-> <<"c", " ">>,
      Policy |-> [FailureThreshold |-> 2, Cooldown |-> "1m", RecoveryAlert |-> TRUE],
      Notify |-> <<" ">>] >>

\* ---- the configurations handed to resolveRoute in RouterSpec ----
RouterMatches == {<<"a", " a ">>, <<"b", " a ">>}

RouterNotifies == {<<"ops", " ">>, <<"mail", " ops ">>, <<" ">>}

RouterPolicies ==
  {[FailureThreshold |-> -1, Cooldown |-> "abc", RecoveryAlert |-> TRUE],
   [FailureThreshold |-> 2, Cooldown |-> "2m", RecoveryAlert |-> FALSE],
   [FailureThreshold |-> 3, Cooldown |-> "1m", RecoveryAlert |-> FALSE]}

RouterRoutes == [Match : RouterMatches, Policy : RouterPolicies, Notify : RouterNotifies]

AllRawPolicies ==
  [FailureThreshold : (-1)..MaxThreshold, Cooldown : CooldownStrings \cup {"2m"},
   RecoveryAlert : BOOLEAN]

\* up to MaxRoutes routes, and every raw policy in a configuration of one route
RouterConfigs ==
  UNION {[1..k -> RouterRoutes] : k \in 0..MaxRoutes}
    \cup {<<[Match |-> <<"a">>, Policy |-> p, Notify |-> <<"ops">>]>> : p \in AllRawPolicies}

\* service ids are validated: non-empty, without whitespace
RouterQueryIDs == {"a", "b", "c"}

\* ---- the scheduler's configuration ----
SchedWorkers == 1..MaxPool

SchedIDs == {"s1", "s2"}

VARIABLES
  routes,     \* Engine.routes
  state,      \* Engine.state: service id -> serviceState, for the ids created
  mu,         \* Engine.mu: 0 when free, else the worker holding it
  clock,      \* time.Now()
  pc,         \* per worker: position inside HandleResult
  job,        \* per worker: the locals of its HandleResult call
  delivered,  \* channel sends made by dispatch, in order
  warnings,   \* number of "alert channel missing" warnings logged
  ncalls,     \* number of HandleResult calls begun
  hist,       \* per service: the results handled under the lock, in lock order
  last,       \* per service: the most recent critical section
  rcfg,       \* config.AlertingConfig.Routes handed to NewEngine in RouterSpec
  rid,        \* service id of the latest resolveRoute call, "" before the first
  rres,       \* resolvedRoute returned by the latest resolveRoute call
  queue,          \* Scheduler: the schedule heap, a bag of scheduledItem
  pendingUpdate,  \* Scheduler: the single-slot pending channel, <<>> or <<list>>
  jobs,           \* Scheduler: the bounded job channel
  running,        \* Scheduler: per worker the service being probed, "" when idle
  cancelled,      \* the root context is cancelled
  cpc,            \* position of Start: "off", "loop", "draining", "returned"
  workerCount,    \* Scheduler.workerCount
  jitter,         \* Scheduler.jitter
  dropWhenFull,   \* hand-off policy on a full job channel: drop the tick, or block
  active,         \* the service list the coordinator applied last
  lastCall,       \* the list of the latest Start / UpdateServices call
  nupdates,       \* number of UpdateServices calls made
  napplied,       \* number of updates the coordinator consumed
  heap,           \* scheduleHeap: the slice behind container/heap
  popped,         \* the items returned by heap.Pop since the latest heap.Push
  hop,            \* the latest heap operation: "new", "push", "pop", "peek"
  hret,           \* what the latest Pop or Peek returned: <<>> for nil, else <<item>>
  reloadSuccess,  \* the gauge uptiq_config_reload_success
  nfailed,        \* number of configuration reloads that failed
  creq,           \* checks: the service probed and what the network answers
  cres,           \* checks: the Result returned by Check, NoResult before
  mail,           \* sendEmail: its channel, position, locals and the SMTP dialogue
  vcfg,           \* Validate: the configuration it is called on
  vres,           \* Validate: <<>> before the call, then <<errs>>
  wk              \* scheduler workers: position, job and result of each, the calls made

engineVars == <<routes, state, mu, clock, pc, job, delivered, warnings, ncalls, hist, last>>
routerVars == <<rcfg, rid, rres>>
schedVars == <<queue, pendingUpdate, jobs, running, cancelled, cpc, workerCount, jitter,
               dropWhenFull, active, lastCall, nupdates, napplied>>

heapVars == <<heap, popped, hop, hret>>
reloadVars == <<reloadSuccess, nfailed>>
checkVars == <<creq, cres>>
validateVars == <<vcfg, vres>>
auxVars == <<heapVars, reloadVars, checkVars, mail, validateVars, wk>>

vars == <<engineVars, routerVars, schedVars, auxVars>>

\* ---- routing ----
Contains(seq, x) == \E i \in 1..Len(seq) : seq[i] = x

RECURSIVE CountOf(_, _)
CountOf(seq, x) ==
  IF seq = <<>> THEN 0
  ELSE (IF Head(seq) = x THEN 1 ELSE 0) + CountOf(Tail(seq), x)

\* Engine.routeIndex[id]: route i is appended once per occurrence of id
RECURSIVE routeIndexFrom(_, _, _)
routeIndexFrom(rs, id, i) ==
  IF i > Len(rs) THEN <<>>
  ELSE [k \in 1..CountOf(rs[i].matchServiceIDs, id) |-> i] \o routeIndexFrom(rs, id, i + 1)

routeIndex(rs, id) == routeIndexFrom(rs, id, 1)

RECURSIVE unionNotify(_, _)
unionNotify(acc, names) ==
  IF names = <<>> THEN acc
  ELSE unionNotify(IF Contains(acc, Head(names)) THEN acc ELSE Append(acc, Head(names)),
                   Tail(names))

Max(x, y) == IF x > y THEN x ELSE y

\* variant: the later route's cooldown replaces the earlier one
mergePolicyLastCooldown(policy, rp) ==
  [failureThreshold |-> Max(policy.failureThreshold, rp.failureThreshold),
   cooldown |-> rp.cooldown,
   recoveryAlert |-> policy.recoveryAlert \/ rp.recoveryAlert]

mergePolicy(policy, rp) ==
  [failureThreshold |-> Max(policy.failureThreshold, rp.failureThreshold),
   cooldown |-> Max(policy.cooldown, rp.cooldown),
   recoveryAlert |-> policy.recoveryAlert \/ rp.recoveryAlert]

RECURSIVE resolveLoop(_, _, _, _, _)
resolveLoop(rs, idxs, notify, policy, first) ==
  IF idxs = <<>> THEN [notify |-> notify, policy |-> policy]
  ELSE LET r == rs[Head(idxs)]
       IN resolveLoop(rs, Tail(idxs), unionNotify(notify, r.notify),
                      IF first THEN r.policy ELSE mergePolicy(policy, r.policy),
                      FALSE)

\* compiledPolicy{failureThreshold: 1}, the baseline of resolveRoute
baselinePolicy == [failureThreshold |-> 1, cooldown |-> 0, recoveryAlert |-> FALSE]

\* resolvedRoute{ok: false}: every other field holds its zero value
NoRoute ==
  [notify |-> <<>>,
   policy |-> [failureThreshold |-> 0, cooldown |-> 0, recoveryAlert |-> FALSE],
   ok |-> FALSE]

\* variant: the empty channel list is not rejected
resolveRouteAllowEmpty(rs, serviceID) ==
  LET idxs == routeIndex(rs, serviceID)
  IN IF Len(idxs) = 0 THEN NoRoute
     ELSE LET m == resolveLoop(rs, idxs, <<>>, baselinePolicy, TRUE)
          IN [notify |-> m.notify, policy |-> m.policy, ok |-> TRUE]

resolveRoute(rs, serviceID) ==
  LET idxs == routeIndex(rs, serviceID)
  IN IF Len(idxs) = 0 THEN NoRoute
     ELSE LET m == resolveLoop(rs, idxs, <<>>, baselinePolicy, TRUE)
          IN IF Len(m.notify) = 0 THEN NoRoute
             ELSE [notify |-> m.notify, policy |-> m.policy, ok |-> TRUE]

\* ---- serviceState and dispatchPayload ----
newServiceState ==
  [State |-> StateUnknown, ConsecutiveFailures |-> 0, LastDownAlertAt |-> ZeroTime,
   DownNotified |-> FALSE, LastResultAt |-> ZeroTime]

NoPayload == [kind |-> "none", reminder |-> FALSE, failures |-> 0, threshold |-> 0]

recoveryPayload == [kind |-> "recovery", reminder |-> FALSE, failures |-> 0, threshold |-> 0]

\* formatDownMessage / emailSubjectDown / emailBodyDown: what the three texts depend on
downPayload(failures, threshold, reminder) ==
  [kind |-> "down", reminder |-> reminder, failures |-> failures, threshold |-> threshold]

\* the "(failure=N/M)" part of the webhook text and the e-mail body
thrPart(p) == IF p.threshold > 1 THEN <<p.failures, p.threshold>> ELSE <<>>

\* ---- the code of HandleResult between Lock and Unlock ----
\* variant: DownNotified is not consulted
sendRecoveryCondNoNotified(st, policy) ==
  st.State = StateDown /\ policy.recoveryAlert

sendRecoveryCond(st, policy) ==
  st.State = StateDown /\ policy.recoveryAlert /\ st.DownNotified

\* variant: the failure streak is not reset
onSuccessKeepsCount(st, policy) ==
  [st |-> [st EXCEPT !.DownNotified = IF st.State = StateDown THEN FALSE ELSE @,
                     !.State = StateUp],
   payload |-> IF sendRecoveryCond(st, policy) THEN recoveryPayload ELSE NoPayload]

\* variant: DownNotified is not reset at the end of the episode
onSuccessKeepsNotified(st, policy) ==
  [st |-> [st EXCEPT !.ConsecutiveFailures = 0, !.State = StateUp],
   payload |-> IF sendRecoveryCond(st, policy) THEN recoveryPayload ELSE NoPayload]

onSuccess(st, policy) ==
  [st |-> [st EXCEPT !.ConsecutiveFailures = 0,
                     !.DownNotified = IF st.State = StateDown THEN FALSE ELSE @,
                     !.State = StateUp],
   payload |-> IF sendRecoveryCond(st, policy) THEN recoveryPayload ELSE NoPayload]

\* variant: the counter is set rather than incremented
incrFailuresSetsOne(n) == 1

incrFailures(n) == n + 1

\* variant: the cooldown must be exceeded, not just reached
canSendDownStrict(policy, st, now) ==
  \/ policy.cooldown <= 0
  \/ st.LastDownAlertAt = ZeroTime
  \/ now - st.LastDownAlertAt > policy.cooldown

\* variant: the cooldown is not enforced
canSendDownAlways(policy, st, now) == TRUE

canSendDown(policy, st, now) ==
  \/ policy.cooldown <= 0
  \/ st.LastDownAlertAt = ZeroTime
  \/ now - st.LastDownAlertAt >= policy.cooldown

\* variant: a sub-threshold failure puts the service back to Unknown
belowThresholdResetsState(st, policy) ==
  [st |-> [st EXCEPT !.State = StateUnknown], payload |-> NoPayload]

\* variant: Unknown is not turned into Up
belowThresholdKeepsUnknown(st, policy) ==
  [st |-> st, payload |-> NoPayload]

belowThreshold(st, policy) ==
  [st |-> [st EXCEPT !.State = IF @ = StateUnknown THEN StateUp ELSE @],
   payload |-> NoPayload]

\* variant: the reminder is decided first, from wasDown and the cooldown alone
thresholdReachedReminderFirst(st, policy, now) ==
  LET wasDown == st.State = StateDown
      can == canSendDown(policy, st, now)
  IN IF wasDown /\ can
       THEN [st |-> [st EXCEPT !.State = StateDown, !.LastDownAlertAt = now],
             payload |-> downPayload(st.ConsecutiveFailures, policy.failureThreshold, TRUE)]
     ELSE IF ~st.DownNotified /\ can
       THEN [st |-> [st EXCEPT !.State = StateDown, !.DownNotified = TRUE,
                               !.LastDownAlertAt = now],
             payload |-> downPayload(st.ConsecutiveFailures, policy.failureThreshold, FALSE)]
     ELSE [st |-> [st EXCEPT !.State = StateDown], payload |-> NoPayload]

\* variant: the first-down branch does not record the time of the alert
thresholdReachedNoStamp(st, policy, now) ==
  LET wasDown == st.State = StateDown
      can == canSendDown(policy, st, now)
  IN IF ~st.DownNotified /\ can
       THEN [st |-> [st EXCEPT !.State = StateDown, !.DownNotified = TRUE],
             payload |-> downPayload(st.ConsecutiveFailures, policy.failureThreshold, FALSE)]
     ELSE IF wasDown /\ st.DownNotified /\ can
       THEN [st |-> [st EXCEPT !.State = StateDown, !.LastDownAlertAt = now],
             payload |-> downPayload(st.ConsecutiveFailures, policy.failureThreshold, TRUE)]
     ELSE [st |-> [st EXCEPT !.State = StateDown], payload |-> NoPayload]

\* variant: the first-down branch does not set DownNotified
thresholdReachedNoFlag(st, policy, now) ==
  LET wasDown == st.State = StateDown
      can == canSendDown(policy, st, now)
  IN IF ~st.DownNotified /\ can
       THEN [st |-> [st EXCEPT !.State = StateDown, !.LastDownAlertAt = now],
             payload |-> downPayload(st.ConsecutiveFailures, policy.failureThreshold, FALSE)]
     ELSE IF wasDown /\ st.DownNotified /\ can
       THEN [st |-> [st EXCEPT !.State = StateDown, !.LastDownAlertAt = now],
             payload |-> downPayload(st.ConsecutiveFailures, policy.failureThreshold, TRUE)]
     ELSE [st |-> [st EXCEPT !.State = StateDown], payload |-> NoPayload]

thresholdReached(st, policy, now) ==
  LET wasDown == st.State = StateDown
      can == canSendDown(policy, st, now)
  IN IF ~st.DownNotified /\ can
       THEN [st |-> [st EXCEPT !.State = StateDown, !.DownNotified = TRUE,
                               !.LastDownAlertAt = now],
             payload |-> downPayload(st.ConsecutiveFailures, policy.failureThreshold, FALSE)]
     ELSE IF wasDown /\ st.DownNotified /\ can
       THEN [st |-> [st EXCEPT !.State = StateDown, !.LastDownAlertAt = now],
             payload |-> downPayload(st.ConsecutiveFailures, policy.failureThreshold, TRUE)]
     ELSE [st |-> [st EXCEPT !.State = StateDown], payload |-> NoPayload]

\* variant: the threshold test is <= instead of <
onFailureOffByOne(st0, policy, now) ==
  LET st == [st0 EXCEPT !.ConsecutiveFailures = incrFailures(@)]
  IN IF st.ConsecutiveFailures <= policy.failureThreshold
       THEN belowThreshold(st, policy)
       ELSE thresholdReached(st, policy, now)

onFailure(st0, policy, now) ==
  LET st == [st0 EXCEPT !.ConsecutiveFailures = incrFailures(@)]
  IN IF st.ConsecutiveFailures < policy.failureThreshold
       THEN belowThreshold(st, policy)
       ELSE thresholdReached(st, policy, now)

handleLocked(st0, policy, success, now) ==
  LET st == [st0 EXCEPT !.LastResultAt = now]
  IN IF success THEN onSuccess(st, policy) ELSE onFailure(st, policy, now)

\* e.state[svc.ID], created as Unknown when absent
lookupState(m, id) == IF id \in DOMAIN m THEN m[id] ELSE newServiceState

\* variant: every service shares one state entry
storeStateAll(m, id, st) == [k \in DOMAIN m \cup {id} |-> st]

\* variant: the map is replaced by one that holds the stored entry only
storeStateOnly(m, id, st) == [k \in {id} |-> st]

storeState(m, id, st) ==
  [k \in DOMAIN m \cup {id} |-> IF k = id THEN st ELSE m[k]]

\* ---- dispatch ----
\* outcomes a send to channel ch can have: TRUE delivered, FALSE error
sendOutcomes(ch) ==
  IF ch.Type \in {"discord", "slack"}
    THEN IF TrimSpace(ch.WebhookURL) = "" THEN {FALSE} ELSE BOOLEAN
    ELSE IF ch.Type = "email" THEN BOOLEAN ELSE {}

isMissing(name) == name \notin DOMAIN channels

\* variant: a name without a channel is skipped without a warning
missingCountSilent(names) == 0

RECURSIVE missingCount(_)
missingCount(names) ==
  IF names = <<>> THEN 0
  ELSE (IF isMissing(Head(names)) THEN 1 ELSE 0) + missingCount(Tail(names))

\* variant: the loop over the channel names returns at the first failed send
RECURSIVE sendsStopAtFailure(_, _, _, _)
sendsStopAtFailure(names, outs, svc, p) ==
  IF names = <<>> THEN <<>>
  ELSE IF isMissing(Head(names)) \/ sendOutcomes(channels[Head(names)]) = {}
    THEN sendsStopAtFailure(Tail(names), Tail(outs), svc, p)
    ELSE <<[svc |-> svc, kind |-> p.kind, reminder |-> p.reminder,
            channel |-> Head(names), ok |-> Head(outs)]>>
           \o (IF Head(outs) THEN sendsStopAtFailure(Tail(names), Tail(outs), svc, p)
               ELSE <<>>)

\* the sends of one dispatch call, given the outcome of the send to each name
RECURSIVE sends(_, _, _, _)
sends(names, outs, svc, p) ==
  IF names = <<>> THEN <<>>
  ELSE LET rest == sends(Tail(names), Tail(outs), svc, p)
       IN IF isMissing(Head(names)) \/ sendOutcomes(channels[Head(names)]) = {}
            THEN rest
            ELSE <<[svc |-> svc, kind |-> p.kind, reminder |-> p.reminder,
                    channel |-> Head(names), ok |-> Head(outs)]>> \o rest

outcomesFor(names) ==
  {outs \in [1..Len(names) -> BOOLEAN] :
     \A i \in 1..Len(names) :
        IF isMissing(names[i]) \/ sendOutcomes(channels[names[i]]) = {}
          THEN outs[i] = FALSE
          ELSE outs[i] \in sendOutcomes(channels[names[i]])}

\* ---- state machine ----
NoJob == [svc |-> "", success |-> FALSE, now |-> ZeroTime, route |-> NoRoute,
          payload |-> NoPayload]

NoLast == [n |-> 0, success |-> FALSE, now |-> ZeroTime, pre |-> newServiceState,
           post |-> newServiceState, payload |-> NoPayload, policy |-> baselinePolicy]

EmptyMap == [k \in {} |-> newServiceState]

\* the engine right after NewEngine, routes apart
EngineFresh ==
  /\ state = EmptyMap
  /\ mu = 0
  /\ clock = 1
  /\ pc = [w \in Workers |-> "idle"]
  /\ job = [w \in Workers |-> NoJob]
  /\ delivered = <<>>
  /\ warnings = 0
  /\ ncalls = [s \in ServiceIDs |-> 0]
  /\ hist = [s \in ServiceIDs |-> <<>>]
  /\ last = [s \in ServiceIDs |-> NoLast]

\* no resolveRoute call recorded
RouterIdle ==
  /\ rcfg = <<>>
  /\ rid = ""
  /\ rres = NoRoute

\* no scheduler started
SchedOff ==
  /\ queue = EmptyBag
  /\ pendingUpdate = <<>>
  /\ jobs = <<>>
  /\ running = [w \in SchedWorkers |-> ""]
  /\ cancelled = FALSE
  /\ cpc = "off"
  /\ workerCount = 1
  /\ jitter = 0
  /\ dropWhenFull = FALSE
  /\ active = <<>>
  /\ lastCall = <<>>
  /\ nupdates = 0
  /\ napplied = 0

\* no schedule heap in use
HeapIdle ==
  /\ heap = <<>>
  /\ popped = <<>>
  /\ hop = "new"
  /\ hret = <<>>

\* metrics.NewBundle(): the gauge starts at 1
ReloadIdle ==
  /\ reloadSuccess = 1
  /\ nfailed = 0

NoResult == [Success |-> FALSE, StatusCode |-> -1, Error |-> ""]

\* no probe made
CheckIdle ==
  /\ creq = <<>>
  /\ cres = NoResult

\* no sendEmail call
MailIdle == mail = <<>>

\* no Validate call
ValidateIdle ==
  /\ vcfg = <<>>
  /\ vres = <<>>

\* no worker of a scheduler at work; a scheduler built without observer and
\* without alert handler
NoWork == [pc |-> [w \in SchedWorkers |-> "idle"], id |-> [w \in SchedWorkers |-> 0],
           res |-> [w \in SchedWorkers |-> FALSE], n |-> 0, log |-> <<>>,
           observer |-> FALSE, alertHandler |-> FALSE]

WorkIdle == wk = NoWork

AuxIdle == HeapIdle /\ ReloadIdle /\ CheckIdle /\ MailIdle /\ ValidateIdle /\ WorkIdle

Init ==
  /\ \E p \in RawPolicies : routes = NewEngine(RawConfig(p))
  /\ EngineFresh
  /\ RouterIdle
  /\ SchedOff
  /\ AuxIdle

RECURSIVE SumCalls(_, _)
SumCalls(f, S) ==
  IF S = {} THEN 0
  ELSE LET s == CHOOSE x \in S : TRUE IN f[s] + SumCalls(f, S \ {s})

\* HandleResult, lines 193-200: resolve the route, return when there is none, read the clock
Begin(w, svc, success) ==
  /\ pc[w] = "idle"
  /\ SumCalls(ncalls, ServiceIDs) < MaxCalls
  /\ ncalls' = [ncalls EXCEPT ![svc] = @ + 1]
  /\ LET route == resolveRoute(routes, svc)
     IN IF ~route.ok
          THEN UNCHANGED <<pc, job>>
          ELSE /\ pc' = [pc EXCEPT ![w] = "lock"]
               /\ job' = [job EXCEPT ![w] = [svc |-> svc, success |-> success, now |-> clock,
                                             route |-> route, payload |-> NoPayload]]
  /\ UNCHANGED <<routerVars, schedVars, auxVars, routes, state, mu, clock, delivered, warnings, hist, last>>

\* variant: the call enters the critical section without waiting for the mutex
LockNoWait(w) ==
  /\ pc[w] = "lock"
  /\ mu' = w
  /\ pc' = [pc EXCEPT ![w] = "critical"]
  /\ UNCHANGED <<routerVars, schedVars, auxVars, routes, state, clock, job, delivered, warnings, ncalls, hist, last>>

\* e.mu.Lock()
Lock(w) ==
  /\ pc[w] = "lock"
  /\ mu = 0
  /\ mu' = w
  /\ pc' = [pc EXCEPT ![w] = "critical"]
  /\ UNCHANGED <<routerVars, schedVars, auxVars, routes, state, clock, job, delivered, warnings, ncalls, hist, last>>

\* variant: the returns that stage no payload leave the mutex locked
CriticalReturnsLocked(w) ==
  /\ pc[w] = "critical"
  /\ mu = w
  /\ LET j == job[w]
         st0 == lookupState(state, j.svc)
         r == handleLocked(st0, j.route.policy, j.success, j.now)
     IN /\ state' = storeState(state, j.svc, r.st)
        /\ hist' = [hist EXCEPT ![j.svc] =
                      Append(@, [success |-> j.success, kind |-> r.payload.kind,
                                 reminder |-> r.payload.reminder, state |-> r.st.State])]
        /\ last' = [last EXCEPT ![j.svc] =
                      [n |-> Len(hist[j.svc]) + 1, success |-> j.success, now |-> j.now,
                       pre |-> st0, post |-> r.st, payload |-> r.payload,
                       policy |-> j.route.policy]]
        /\ IF r.payload.kind # "none"
             THEN /\ pc' = [pc EXCEPT ![w] = "dispatch"]
                  /\ job' = [job EXCEPT ![w].payload = r.payload]
             ELSE /\ pc' = [pc EXCEPT ![w] = "idle"]
                  /\ job' = [job EXCEPT ![w] = NoJob]
  /\ mu' = IF handleLocked(lookupState(state, job[w].svc), job[w].route.policy,
                            job[w].success, job[w].now).payload.kind # "none"
             THEN 0 ELSE mu
  /\ UNCHANGED <<routerVars, schedVars, auxVars, routes, clock, delivered, warnings, ncalls>>

\* lines 211-292: the state update, the staging of the payload and e.mu.Unlock()
Critical(w) ==
  /\ pc[w] = "critical"
  /\ mu = w
  /\ LET j == job[w]
         st0 == lookupState(state, j.svc)
         r == handleLocked(st0, j.route.policy, j.success, j.now)
     IN /\ state' = storeState(state, j.svc, r.st)
        /\ hist' = [hist EXCEPT ![j.svc] =
                      Append(@, [success |-> j.success, kind |-> r.payload.kind,
                                 reminder |-> r.payload.reminder, state |-> r.st.State])]
        /\ last' = [last EXCEPT ![j.svc] =
                      [n |-> Len(hist[j.svc]) + 1, success |-> j.success, now |-> j.now,
                       pre |-> st0, post |-> r.st, payload |-> r.payload,
                       policy |-> j.route.policy]]
        /\ IF r.payload.kind # "none"
             THEN /\ pc' = [pc EXCEPT ![w] = "dispatch"]
                  /\ job' = [job EXCEPT ![w].payload = r.payload]
             ELSE /\ pc' = [pc EXCEPT ![w] = "idle"]
                  /\ job' = [job EXCEPT ![w] = NoJob]
  /\ mu' = 0
  /\ UNCHANGED <<routerVars, schedVars, auxVars, routes, clock, delivered, warnings, ncalls>>

\* e.dispatch(route.notify, svc, payload): one pass over the channel names
Dispatch(w) ==
  /\ pc[w] = "dispatch"
  /\ LET j == job[w]
     IN \E outs \in outcomesFor(j.route.notify) :
          /\ delivered' = delivered \o sends(j.route.notify, outs, j.svc, j.payload)
          /\ warnings' = warnings + missingCount(j.route.notify)
  /\ pc' = [pc EXCEPT ![w] = "idle"]
  /\ job' = [job EXCEPT ![w] = NoJob]
  /\ UNCHANGED <<routerVars, schedVars, auxVars, routes, state, mu, clock, ncalls, hist, last>>

\* a minute passes
Tick ==
  /\ clock < MaxTime
  /\ clock' = clock + 1
  /\ UNCHANGED <<routerVars, schedVars, auxVars, routes, state, mu, pc, job, delivered, warnings, ncalls, hist, last>>

Next ==
  \/ \E w \in Workers, svc \in ServiceIDs, success \in BOOLEAN : Begin(w, svc, success)
  \/ \E w \in Workers : Lock(w)
  \/ \E w \in Workers : Critical(w)
  \/ \E w \in Workers : Dispatch(w)
  \/ Tick

Spec == Init /\ [][Next]_vars

\* ======================================================================
\* Properties of the alert engine
\* ======================================================================
Handled(s) == last[s].n > 0

IsFirstDown(p) == p.kind = "down" /\ ~p.reminder
IsStillDown(p) == p.kind = "down" /\ p.reminder

Results(h) == [i \in 1..Len(h) |-> h[i].success]

\* outage episodes of a service, read off the results handled under the lock:
\* an episode starts at a call that sets State to Down from another state and
\* lasts until the next call that sets State to Up
EpisodeStarts(h) ==
  {i \in 1..Len(h) : h[i].state = StateDown /\ (i = 1 \/ h[i - 1].state # StateDown)}

EpisodeEnd(h, i) ==
  IF \E j \in (i + 1)..Len(h) : h[j].state = StateUp
    THEN CHOOSE j \in (i + 1)..Len(h) :
           h[j].state = StateUp /\ \A k \in (i + 1)..(j - 1) : h[k].state # StateUp
    ELSE Len(h) + 1

FirstDownsIn(h, i) ==
  Cardinality({k \in i..(EpisodeEnd(h, i) - 1) : h[k].kind = "down" /\ ~h[k].reminder})

DownBefore(h, i) == \E k \in 1..(i - 1) : h[k].kind = "down"

\* C1 as stated: every outage episode that has ended staged exactly one
\* first-down payload.
C1_ExactlyOneFirstDown ==
  \A s \in ServiceIDs :
    \A i \in EpisodeStarts(hist[s]) :
      EpisodeEnd(hist[s], i) <= Len(hist[s]) => FirstDownsIn(hist[s], i) = 1

\* C1 amended: every outage episode stages at most one first-down payload,
\* and exactly one (at the call that opens the episode) when the cooldown is 0
\* or no down payload was staged for the service before the episode.
C1_AtMostOneFirstDown ==
  \A s \in ServiceIDs :
    \A i \in EpisodeStarts(hist[s]) :
      /\ FirstDownsIn(hist[s], i) <= 1
      /\ (last[s].policy.cooldown = 0 \/ ~DownBefore(hist[s], i))
           => IsFirstDown(hist[s][i])

\* an episode that ended without a first-down payload, after one that had one
C1_Witness ==
  \E i, k \in EpisodeStarts(hist["a"]) :
    /\ i < k
    /\ FirstDownsIn(hist["a"], i) = 1
    /\ EpisodeEnd(hist["a"], k) <= Len(hist["a"])
    /\ FirstDownsIn(hist["a"], k) = 0

\* C2: a down payload staged after an earlier down payload of the service is
\* staged by a call whose timestamp is at least Cooldown later than the
\* earlier payload's timestamp (LastDownAlertAt at entry).
C2_DownSpacing ==
  \A s \in ServiceIDs :
    (Handled(s) /\ last[s].payload.kind = "down" /\ last[s].pre.LastDownAlertAt # ZeroTime)
      => last[s].now - last[s].pre.LastDownAlertAt >= last[s].policy.cooldown

\* C3: a recovery payload is staged only by a success result that finds
\* State = Down, RecoveryAlert = true and DownNotified = true.
C3_RecoveryOnlyWhenNotified ==
  \A s \in ServiceIDs :
    (Handled(s) /\ last[s].payload.kind = "recovery")
      => /\ last[s].success
         /\ last[s].pre.State = StateDown
         /\ last[s].policy.recoveryAlert
         /\ last[s].pre.DownNotified

C3_Witness ==
  /\ last["a"].payload.kind = "recovery"
  /\ Len(hist["a"]) >= 3

\* C4: a service's State starts at Unknown and moves only Unknown->Up,
\* Unknown->Down, Up->Down, Down->Up or stays; it never returns to Unknown.
AllowedTransitions ==
  {<<StateUnknown, StateUnknown>>, <<StateUp, StateUp>>, <<StateDown, StateDown>>,
   <<StateUnknown, StateUp>>, <<StateUnknown, StateDown>>,
   <<StateUp, StateDown>>, <<StateDown, StateUp>>}

StateOf(m, s) == IF s \in DOMAIN m THEN m[s].State ELSE StateUnknown

C4_StateTransitions ==
  [][\A s \in ServiceIDs :
       /\ <<StateOf(state, s), StateOf(state', s)>> \in AllowedTransitions
       /\ (s \notin DOMAIN state /\ s \in DOMAIN state')
            => last'[s].pre.State = StateUnknown]_vars

C4_Witness ==
  LET h == hist["a"]
  IN /\ \E i \in 1..(Len(h) - 1) : h[i].state = StateUp /\ h[i + 1].state = StateDown
     /\ \E i \in 1..(Len(h) - 1) : h[i].state = StateDown /\ h[i + 1].state = StateUp

\* C5: ConsecutiveFailures is the number of failures handled since the last
\* success: a failure adds exactly 1, a success sets it to 0.
RECURSIVE TrailingFailures(_)
TrailingFailures(h) ==
  IF h = <<>> \/ h[Len(h)].success THEN 0
  ELSE 1 + TrailingFailures(SubSeq(h, 1, Len(h) - 1))

C5_FailureCount ==
  \A s \in ServiceIDs :
    Handled(s) =>
      /\ s \in DOMAIN state
      /\ state[s].ConsecutiveFailures = TrailingFailures(hist[s])
      /\ last[s].post.ConsecutiveFailures =
           IF last[s].success THEN 0 ELSE last[s].pre.ConsecutiveFailures + 1

C5_Witness ==
  /\ "a" \in DOMAIN state
  /\ state["a"].ConsecutiveFailures = 2
  /\ \E i \in 1..Len(hist["a"]) : hist["a"][i].success

\* C6: a failure that leaves ConsecutiveFailures below the threshold stages
\* nothing, turns Unknown into Up and otherwise leaves State, DownNotified
\* and LastDownAlertAt as they were.
C6_BelowThreshold ==
  \A s \in ServiceIDs :
    (Handled(s) /\ ~last[s].success
       /\ last[s].post.ConsecutiveFailures < last[s].policy.failureThreshold)
      => /\ last[s].payload = NoPayload
         /\ last[s].post.State =
              IF last[s].pre.State = StateUnknown THEN StateUp ELSE last[s].pre.State
         /\ last[s].post.DownNotified = last[s].pre.DownNotified
         /\ last[s].post.LastDownAlertAt = last[s].pre.LastDownAlertAt

C6_Witness ==
  /\ Handled("a") /\ ~last["a"].success
  /\ last["a"].post.ConsecutiveFailures < last["a"].policy.failureThreshold
  /\ last["a"].pre.State = StateUnknown

\* C7: with threshold 3 and cooldown 0 a fresh service that fails four times
\* stages nothing and is Up after failures 1 and 2, is Down with a first-down
\* payload showing 3/3 after failure 3, and stages a still-down payload at
\* failure 4; with cooldown 0 every failure at or beyond the threshold stages
\* a down payload.
AllFailures(h) == \A i \in 1..Len(h) : ~h[i].success

C7_ThresholdThree ==
  \A s \in ServiceIDs :
    Handled(s) =>
      /\ (last[s].policy.failureThreshold = 3 /\ last[s].policy.cooldown = 0
            /\ AllFailures(hist[s]))
           => /\ Len(hist[s]) \in {1, 2}
                   => last[s].payload = NoPayload /\ state[s].State = StateUp
              /\ Len(hist[s]) = 3
                   => /\ state[s].State = StateDown
                      /\ IsFirstDown(last[s].payload)
                      /\ thrPart(last[s].payload) = <<3, 3>>
              /\ Len(hist[s]) = 4 => IsStillDown(last[s].payload)
      /\ (last[s].policy.cooldown = 0 /\ ~last[s].success
            /\ last[s].post.ConsecutiveFailures >= last[s].policy.failureThreshold)
           => last[s].payload.kind = "down"

C7_Witness ==
  /\ last["a"].policy.failureThreshold = 3 /\ last["a"].policy.cooldown = 0
  /\ Len(hist["a"]) = 4 /\ AllFailures(hist["a"])
  /\ IsStillDown(last["a"].payload)

\* C8: with threshold 2, recovery alerts on and cooldown 1m, the results
\* failure, failure, success, failure on a fresh service give a first-down
\* payload at the second failure, a recovery payload at the success (then
\* State = Up, ConsecutiveFailures = 0, DownNotified = false), and nothing at
\* the last failure, which leaves ConsecutiveFailures = 1.
C8_Policy(s) ==
  /\ last[s].policy.failureThreshold = 2
  /\ last[s].policy.cooldown = 1
  /\ last[s].policy.recoveryAlert

C8_FailFailSucceedFail ==
  \A s \in ServiceIDs :
    (Handled(s) /\ C8_Policy(s)) =>
      /\ Results(hist[s]) = <<FALSE, FALSE>> => IsFirstDown(last[s].payload)
      /\ Results(hist[s]) = <<FALSE, FALSE, TRUE>>
           => /\ last[s].payload.kind = "recovery"
              /\ state[s].State = StateUp
              /\ state[s].ConsecutiveFailures = 0
              /\ ~state[s].DownNotified
      /\ Results(hist[s]) = <<FALSE, FALSE, TRUE, FALSE>>
           => /\ state[s].ConsecutiveFailures = 1
              /\ last[s].payload = NoPayload

C8_Witness ==
  /\ C8_Policy("a")
  /\ Results(hist["a"]) = <<FALSE, FALSE, TRUE, FALSE>>
  /\ hist["a"][2].kind = "down" /\ hist["a"][3].kind = "recovery"

\* C9 as stated: with threshold 1 every failure result stages a first-down
\* payload.
C9_EveryFailureFirstDown ==
  \A s \in ServiceIDs :
    (Handled(s) /\ last[s].policy.failureThreshold = 1 /\ ~last[s].success)
      => IsFirstDown(last[s].payload)

\* C9 amended: with threshold 1 every failure result sets State to Down; it
\* stages a first-down payload exactly when DownNotified is false at entry
\* and the cooldown allows it (cooldown 0, no earlier down payload, or the
\* cooldown elapsed since LastDownAlertAt), so the first failure handled for
\* a service always stages one.
CooldownAllows(l) ==
  \/ l.policy.cooldown = 0
  \/ l.pre.LastDownAlertAt = ZeroTime
  \/ l.now - l.pre.LastDownAlertAt >= l.policy.cooldown

C9_ThresholdOne ==
  \A s \in ServiceIDs :
    (Handled(s) /\ last[s].policy.failureThreshold = 1 /\ ~last[s].success)
      => /\ last[s].post.State = StateDown
         /\ IsFirstDown(last[s].payload)
              <=> (~last[s].pre.DownNotified /\ CooldownAllows(last[s]))
         /\ last[s].n = 1 => IsFirstDown(last[s].payload)

C9_Witness ==
  /\ last["a"].policy.failureThreshold = 1 /\ ~last["a"].success
  /\ last["a"].n >= 2
  /\ last["a"].pre.DownNotified
  /\ ~IsFirstDown(last["a"].payload)

\* C10: a HandleResult call for a service without a matching route, or whose
\* matching routes name no channel, creates no state entry, changes no state
\* and dispatches nothing.
MatchingRoutes(s) == {i \in 1..Len(routes) : Contains(routes[i].matchServiceIDs, s)}

Unrouted(s) == \A i \in MatchingRoutes(s) : routes[i].notify = <<>>

C10_UnroutedDropped ==
  [][\A s \in ServiceIDs :
       Unrouted(s) =>
         /\ s \notin DOMAIN state'
         /\ ncalls'[s] # ncalls[s]
              => UNCHANGED <<state, mu, pc, job, delivered, warnings, hist, last>>]_vars

C10_Witness ==
  /\ Unrouted("c") /\ ncalls["c"] > 0
  /\ Unrouted("d") /\ ncalls["d"] > 0
  /\ DOMAIN state = {"a"}

\* ======================================================================
\* Route resolution over bounded configurations
\* ======================================================================
RouterInit ==
  /\ rcfg \in RouterConfigs
  /\ routes = NewEngine(rcfg)
  /\ EngineFresh
  /\ rid = ""
  /\ rres = NoRoute
  /\ SchedOff
  /\ AuxIdle

\* e.resolveRoute(serviceID) on the engine built from rcfg
Resolve(id) ==
  /\ rid' = id
  /\ rres' = resolveRoute(routes, id)
  /\ UNCHANGED <<rcfg, engineVars, schedVars, auxVars>>

RouterNext == \E id \in RouterQueryIDs : Resolve(id)

RouterSpec == RouterInit /\ [][RouterNext]_vars

\* ---- properties of route resolution, stated on the raw configuration ----
\* the routes of the configuration that list the id, after trimming
ListingRoutes(cfg, id) ==
  {i \in 1..Len(cfg) : \E k \in 1..Len(cfg[i].Match) : TrimSpace(cfg[i].Match[k]) = id}

\* the non-blank notify names of route i
NamesOf(cfg, i) ==
  {TrimSpace(cfg[i].Notify[k]) : k \in 1..Len(cfg[i].Notify)} \ {""}

UnionNames(cfg, id) == UNION {NamesOf(cfg, i) : i \in ListingRoutes(cfg, id)}

\* where a name is first seen: the earliest listing route that has it, then
\* the earliest position inside that route
FirstRoute(cfg, id, x) ==
  CHOOSE i \in ListingRoutes(cfg, id) :
    /\ x \in NamesOf(cfg, i)
    /\ \A j \in ListingRoutes(cfg, id) : x \in NamesOf(cfg, j) => i <= j

FirstPos(cfg, i, x) ==
  CHOOSE k \in 1..Len(cfg[i].Notify) :
    /\ TrimSpace(cfg[i].Notify[k]) = x
    /\ \A m \in 1..Len(cfg[i].Notify) : TrimSpace(cfg[i].Notify[m]) = x => k <= m

SeenBefore(cfg, id, x, y) ==
  LET i == FirstRoute(cfg, id, x)
      j == FirstRoute(cfg, id, y)
  IN i < j \/ (i = j /\ FirstPos(cfg, i, x) < FirstPos(cfg, i, y))

SetMax(S) == CHOOSE x \in S : \A y \in S : y <= x

Thresholds(cfg, id) ==
  {compilePolicy(cfg[i].Policy).failureThreshold : i \in ListingRoutes(cfg, id)}

Cooldowns(cfg, id) ==
  {compilePolicy(cfg[i].Policy).cooldown : i \in ListingRoutes(cfg, id)}

Resolved == rid # ""

\* C11: a valid resolved route lists exactly the non-blank notify names of the
\* routes that list the service, each once and in first-seen order, and its
\* policy has the largest threshold and the largest cooldown of those routes
\* and recovery alerts when any of them enables them.
C11_UnionAndMerge ==
  (Resolved /\ rres.ok) =>
    /\ {rres.notify[k] : k \in 1..Len(rres.notify)} = UnionNames(rcfg, rid)
    /\ \A k, m \in 1..Len(rres.notify) :
         k < m => /\ rres.notify[k] # rres.notify[m]
                  /\ SeenBefore(rcfg, rid, rres.notify[k], rres.notify[m])
    /\ rres.policy.failureThreshold = SetMax(Thresholds(rcfg, rid))
    /\ rres.policy.cooldown = SetMax(Cooldowns(rcfg, rid))
    /\ rres.policy.recoveryAlert =
         (\E i \in ListingRoutes(rcfg, rid) : rcfg[i].Policy.RecoveryAlert)

\* three routes list "a": the second repeats a channel of the first, the
\* largest threshold, the largest cooldown and the recovery flag come from
\* three different routes
C11_Witness ==
  /\ rid = "a"
  /\ Cardinality(ListingRoutes(rcfg, "a")) = 3
  /\ rcfg[1].Notify = <<"mail", " ops ">>
  /\ rcfg[2].Notify = <<"ops", " ">>
  /\ rcfg[1].Policy.FailureThreshold = 3
  /\ rcfg[2].Policy.FailureThreshold = 2
  /\ rcfg[3].Policy.FailureThreshold = -1
  /\ rres.ok
  /\ rres.notify = <<"mail", "ops">>
  /\ rres.policy = [failureThreshold |-> 3, cooldown |-> 2, recoveryAlert |-> TRUE]

\* C12: the resolved route is valid exactly when some route lists the id
\* (after trimming) and those routes have a non-blank notify name.
C12_ValidIff ==
  Resolved =>
    (rres.ok <=> (ListingRoutes(rcfg, rid) # {} /\ UnionNames(rcfg, rid) # {}))

\* "a" is listed, with surrounding blanks only, by two routes whose notify
\* names are all blank: the resolved route is not valid
C12_Witness ==
  /\ rid = "a"
  /\ Len(rcfg) = 2
  /\ \A i \in 1..2 : rcfg[i].Match = <<"b", " a ">> /\ rcfg[i].Notify = <<" ">>
  /\ ~rres.ok

\* C13: every compiled policy and the policy of every valid resolved route has
\* a threshold of at least 1 and a cooldown of at least 0; a configured
\* threshold of zero or below compiles to 1, a positive one to itself; an
\* empty, blank, unparseable or non-positive cooldown compiles to 0.
C13_PolicyBounds ==
  /\ \A i \in 1..Len(routes) :
       /\ routes[i].policy.failureThreshold >= 1
       /\ routes[i].policy.cooldown >= 0
       /\ rcfg[i].Policy.FailureThreshold <= 0 => routes[i].policy.failureThreshold = 1
       /\ rcfg[i].Policy.FailureThreshold > 0
            => routes[i].policy.failureThreshold = rcfg[i].Policy.FailureThreshold
       /\ rcfg[i].Policy.Cooldown \in {"", " ", "abc", "-1m", "0s"}
            => routes[i].policy.cooldown = 0
       /\ rcfg[i].Policy.Cooldown \in {"1m", "2m"} => routes[i].policy.cooldown > 0
  /\ (Resolved /\ rres.ok) =>
       /\ rres.policy.failureThreshold >= 1
       /\ rres.policy.cooldown >= 0

\* a route configured with threshold -1 and cooldown "-1m" has been resolved
C13_Witness ==
  /\ rid = "a"
  /\ rres.ok
  /\ Len(rcfg) = 1
  /\ rcfg[1].Policy.FailureThreshold = -1
  /\ rcfg[1].Policy.Cooldown = "-1m"
  /\ rres.policy.failureThreshold = 1
  /\ rres.policy.cooldown = 0

\* ======================================================================
\* Scheduler: coordinator, worker pool, reconfiguration
\*
\* Time is counted in units of 30 s and relative to now: the nextRun of a
\* scheduledItem holds NextRun - now, the wait the coordinator computes for
\* it.  The coordinator serves a due timer before a whole unit passes, so
\* nextRun is never negative.
\* ======================================================================
MinWorkerCount == 1
MaxWorkerCount == 1000

\* New: the worker count is clamped into [1, 1000]
clampWorkerCount(n) ==
  IF n < MinWorkerCount THEN MinWorkerCount
  ELSE IF n > MaxWorkerCount THEN MaxWorkerCount ELSE n

defaultInterval == 1

\* parseIntervalOrDefault, in units of 30 s
parseIntervalOrDefault(str) ==
  CASE str = "30s" -> 1
    [] str = "1m" -> 2
    [] OTHER -> defaultInterval

\* randomJitter: U(0, jitter), zero when jitter = 0
randomJitter(j) == IF j <= 0 THEN {0} ELSE 0..(j - 1)

Svc1 ==
  [ID |-> "s1", Name |-> "one", Type |-> "http", URL |-> "http://one", Host |-> "",
   Port |-> 0, Headers |-> {<<"A", "1">>}, ExpectedStatus |-> <<200>>,
   Interval |-> "30s", Timeout |-> "5s"]

Svc1Slower == [Svc1 EXCEPT !.Interval = "1m"]

Svc2 ==
  [ID |-> "s2", Name |-> "two", Type |-> "tcp", URL |-> "", Host |-> "localhost",
   Port |-> 5432, Headers |-> {}, ExpectedStatus |-> <<>>,
   Interval |-> "30s", Timeout |-> "5s"]

Svc2Renamed == [Svc2 EXCEPT !.Name = "dos"]

\* validated service lists (no id twice) handed to UpdateServices
ServiceLists == {<<Svc2>>, <<Svc1Slower, Svc2Renamed>>}

InitialLists == {<<>>, <<Svc1, Svc2>>}

mapsEqual(a, b) == a = b

\* variant: the interval is not compared
servicesEqualIgnoresInterval(a, b) ==
  /\ a.ID = b.ID /\ a.Type = b.Type
  /\ a.URL = b.URL /\ a.Host = b.Host /\ a.Port = b.Port
  /\ mapsEqual(a.Headers, b.Headers)
  /\ a.ExpectedStatus = b.ExpectedStatus
  /\ a.Timeout = b.Timeout

servicesEqual(a, b) ==
  /\ a.ID = b.ID /\ a.Type = b.Type
  /\ a.URL = b.URL /\ a.Host = b.Host /\ a.Port = b.Port
  /\ mapsEqual(a.Headers, b.Headers)
  /\ a.ExpectedStatus = b.ExpectedStatus
  /\ a.Interval = b.Interval /\ a.Timeout = b.Timeout

\* ---- the schedule heap ----
Items(q) == BagToSet(q)

\* Peek: an item of the smallest nextRun; ties are broken arbitrarily
Earliest(q) == {it \in Items(q) : \A o \in Items(q) : it.nextRun <= o.nextRun}

\* variant: the item stays in the heap
popItemPeekOnly(q, it) == q

\* heap.Pop
popItem(q, it) == q (-) SetToBag({it})

\* variant: the item is not pushed back
pushItemLost(q, it) == q

\* heap.Push
pushItem(q, it) == q (+) SetToBag({it})

\* variant: the default interval is used whatever the service's interval
rescheduleDefaultInterval(it, j) == [it EXCEPT !.nextRun = defaultInterval + j]

\* the popped item with NextRun = now + Interval + U(0, jitter)
reschedule(it, j) ==
  [it EXCEPT !.nextRun = parseIntervalOrDefault(it.service.Interval) + j]

\* the entry of the rebuilt queue for an incoming service
entryFor(q, svc, j) ==
  LET old == {it \in Items(q) : it.service.ID = svc.ID}
  IN IF old # {} /\ servicesEqual((CHOOSE it \in old : TRUE).service, svc)
       THEN [service |-> svc, nextRun |-> (CHOOSE it \in old : TRUE).nextRun]
       ELSE [service |-> svc, nextRun |-> j]

\* variant: the entries of services missing from the new list stay
rebuildKeepsRemoved(q, list, js) ==
  LET ids == {list[i].ID : i \in 1..Len(list)}
      kept == {it \in Items(q) : it.service.ID \notin ids}
  IN SetToBag({entryFor(q, list[i], js[list[i].ID]) : i \in 1..Len(list)} \cup kept)

\* the queue built when an update is consumed
rebuild(q, list, js) ==
  SetToBag({entryFor(q, list[i], js[list[i].ID]) : i \in 1..Len(list)})

elapseItem(it) == [it EXCEPT !.nextRun = IF @ > 0 THEN @ - 1 ELSE 0]

\* ---- the pending-update slot ----
\* variant: a list already waiting in the slot is kept
writePendingKeepsOld(slot, list) == IF slot = <<>> THEN <<list>> ELSE slot

\* latest wins
writePending(slot, list) == <<list>>

\* ---- the worker pool ----
\* variant: only the job channel is looked at
workersDrainedIgnoresRunning(r, jb) == jb = <<>>

\* every worker has left its loop: the closed job channel is empty, no job runs
workersDrained(r, jb) == jb = <<>> /\ \A w \in SchedWorkers : r[w] = ""

\* ---- state machine ----
\* New(cfg, ...) followed by Start(ctx, initialServices)
SchedInit ==
  /\ AuxIdle
  /\ rcfg = <<>>
  /\ routes = <<>>
  /\ EngineFresh
  /\ rid = ""
  /\ rres = NoRoute
  /\ \E n \in 0..MaxPool : workerCount = clampWorkerCount(n)
  /\ jitter \in {0, MaxJitter}
  /\ dropWhenFull \in BOOLEAN
  /\ \E list \in InitialLists, js \in [SchedIDs -> randomJitter(jitter)] :
       /\ queue = rebuild(EmptyBag, list, js)
       /\ active = list
       /\ lastCall = list
  /\ pendingUpdate = <<>>
  /\ jobs = <<>>
  /\ running = [w \in SchedWorkers |-> ""]
  /\ cancelled = FALSE
  /\ cpc = "loop"
  /\ nupdates = 0
  /\ napplied = 0

\* the timer branch of the select: pop, submit, reschedule, push back
TimerFire ==
  /\ cpc = "loop"
  /\ \E it \in Earliest(queue), j \in randomJitter(jitter) :
       LET full == Len(jobs) >= workerCount
           id == it.service.ID
       IN /\ it.nextRun = 0
          /\ full => dropWhenFull
          /\ jobs' = IF full THEN jobs ELSE Append(jobs, id)
          /\ queue' = pushItem(popItem(queue, it), reschedule(it, j))
  /\ UNCHANGED <<pendingUpdate, running, cancelled, cpc, workerCount, jitter,
                 dropWhenFull, active, lastCall, nupdates, napplied>>
  /\ UNCHANGED <<engineVars, routerVars, auxVars>>

\* the update branch of the select: drain the slot, rebuild the queue
ConsumeUpdate ==
  /\ cpc = "loop"
  /\ pendingUpdate # <<>>
  /\ \E js \in [SchedIDs -> randomJitter(jitter)] :
       queue' = rebuild(queue, pendingUpdate[1], js)
  /\ active' = pendingUpdate[1]
  /\ pendingUpdate' = <<>>
  /\ napplied' = napplied + 1
  /\ UNCHANGED <<jobs, running, cancelled, cpc, workerCount, jitter, dropWhenFull,
                 lastCall, nupdates>>
  /\ UNCHANGED <<engineVars, routerVars, auxVars>>

\* the cancellation branch of the select: stop dispatching, close the job channel
ObserveCancel ==
  /\ cpc = "loop"
  /\ cancelled
  /\ cpc' = "draining"
  /\ UNCHANGED <<queue, pendingUpdate, jobs, running, cancelled, workerCount, jitter,
                 dropWhenFull, active, lastCall, nupdates, napplied>>
  /\ UNCHANGED <<engineVars, routerVars, auxVars>>

\* Start returns nil once the workers have drained
Return ==
  /\ cpc = "draining"
  /\ workersDrained(running, jobs)
  /\ cpc' = "returned"
  /\ UNCHANGED <<queue, pendingUpdate, jobs, running, cancelled, workerCount, jitter,
                 dropWhenFull, active, lastCall, nupdates, napplied>>
  /\ UNCHANGED <<engineVars, routerVars, auxVars>>

\* a worker receives a job
WorkerTake(w) ==
  /\ w <= workerCount
  /\ cpc \in {"loop", "draining"}
  /\ running[w] = ""
  /\ jobs # <<>>
  /\ running' = [running EXCEPT ![w] = Head(jobs)]
  /\ jobs' = Tail(jobs)
  /\ UNCHANGED <<queue, pendingUpdate, cancelled, cpc, workerCount, jitter,
                 dropWhenFull, active, lastCall, nupdates, napplied>>
  /\ UNCHANGED <<engineVars, routerVars, auxVars>>

\* the probe, observer.Observe and alertHandler.HandleResult of the job are done
WorkerFinish(w) ==
  /\ running[w] # ""
  /\ running' = [running EXCEPT ![w] = ""]
  /\ UNCHANGED <<queue, pendingUpdate, jobs, cancelled, cpc, workerCount, jitter,
                 dropWhenFull, active, lastCall, nupdates, napplied>>
  /\ UNCHANGED <<engineVars, routerVars, auxVars>>

\* UpdateServices(list), called from another task
UpdateCall(list) ==
  /\ cpc = "loop"
  /\ nupdates < MaxUpdates
  /\ pendingUpdate' = writePending(pendingUpdate, list)
  /\ lastCall' = list
  /\ nupdates' = nupdates + 1
  /\ UNCHANGED <<queue, jobs, running, cancelled, cpc, workerCount, jitter,
                 dropWhenFull, active, napplied>>
  /\ UNCHANGED <<engineVars, routerVars>>

UpdateServices(list) == UpdateCall(list) /\ UNCHANGED auxVars

\* the root context is cancelled
Cancel ==
  /\ cpc = "loop"
  /\ ~cancelled
  /\ cancelled' = TRUE
  /\ UNCHANGED <<queue, pendingUpdate, jobs, running, cpc, workerCount, jitter,
                 dropWhenFull, active, lastCall, nupdates, napplied>>
  /\ UNCHANGED <<engineVars, routerVars, auxVars>>

\* 30 s pass; a due timer is served before that
SchedTick ==
  /\ cpc = "loop"
  /\ \E it \in Items(queue) : it.nextRun > 0
  /\ \A it \in Items(queue) : it.nextRun > 0
  /\ queue' = BagOfAll(elapseItem, queue)
  /\ UNCHANGED <<pendingUpdate, jobs, running, cancelled, cpc, workerCount, jitter,
                 dropWhenFull, active, lastCall, nupdates, napplied>>
  /\ UNCHANGED <<engineVars, routerVars, auxVars>>

SchedNext ==
  \/ TimerFire
  \/ ConsumeUpdate
  \/ ObserveCancel
  \/ Return
  \/ \E w \in SchedWorkers : WorkerTake(w)
  \/ \E w \in SchedWorkers : WorkerFinish(w)
  \/ \E list \in ServiceLists : UpdateServices(list)
  \/ Cancel
  \/ SchedTick

SchedSpec == SchedInit /\ [][SchedNext]_vars

\* the coordinator's select takes each ready branch eventually, every worker
\* receives and finishes its jobs (probes end at their deadlines), time passes
FairSchedSpec ==
  /\ SchedInit
  /\ [][SchedNext]_vars
  /\ WF_vars(TimerFire)
  /\ WF_vars(ConsumeUpdate)
  /\ WF_vars(ObserveCancel)
  /\ WF_vars(Return)
  /\ \A w \in SchedWorkers : WF_vars(WorkerTake(w))
  /\ \A w \in SchedWorkers : WF_vars(WorkerFinish(w))
  /\ WF_vars(SchedTick)

\* ======================================================================
\* Properties of the scheduler
\* ======================================================================
IDsOf(list) == {list[i].ID : i \in 1..Len(list)}

QueueIDs(q) == {it.service.ID : it \in Items(q)}

EntryOf(q, id) == CHOOSE it \in Items(q) : it.service.ID = id

\* a probe job for the service is put on the job channel in this step
Submitted(id) == Len(jobs') = Len(jobs) + 1 /\ jobs'[Len(jobs')] = id

\* the coordinator consumes an update in this step
Consumed == napplied' = napplied + 1

\* the fields the schedule of a service depends on
SameSchedule(a, b) ==
  /\ a.ID = b.ID
  /\ a.Type = b.Type
  /\ a.URL = b.URL
  /\ a.Host = b.Host
  /\ a.Port = b.Port
  /\ a.Headers = b.Headers
  /\ a.ExpectedStatus = b.ExpectedStatus
  /\ a.Interval = b.Interval
  /\ a.Timeout = b.Timeout

\* C14: the queue holds at most one scheduled entry per service id.
C14_OneEntryPerID ==
  /\ \A it \in Items(queue) : CopiesIn(it, queue) = 1
  /\ \A a, b \in Items(queue) : a.service.ID = b.service.ID => a = b

\* both services are scheduled after an update was consumed, one of them
\* rescheduled by a timer that put its job on the channel
C14_Witness ==
  /\ napplied >= 1
  /\ QueueIDs(queue) = SchedIDs
  /\ jobs # <<>>
  /\ \E it \in Items(queue) : it.service.ID = jobs[1] /\ it.nextRun > 0

\* C15 as stated: no two workers run a probe of the same service.
C15_OneInFlight ==
  \A v, w \in SchedWorkers : (v # w /\ running[v] # "") => running[v] # running[w]

\* C16: the update the coordinator consumes leaves exactly one entry for each
\* service of the list, holding that service, and none for any other id; the
\* queue always holds the ids of the list applied last, and a probe job is
\* only ever submitted for one of them.
C16_QueueIsNewList ==
  /\ [][Consumed =>
          /\ QueueIDs(queue') = IDsOf(pendingUpdate[1])
          /\ \A i \in 1..Len(pendingUpdate[1]) :
               EntryOf(queue', pendingUpdate[1][i].ID).service = pendingUpdate[1][i]]_vars
  /\ [](QueueIDs(queue) = IDsOf(active))
  /\ [][\A id \in SchedIDs : Submitted(id) => id \in IDsOf(active)]_vars

\* "s1" was removed by an update while one of its probes is still running
C16_Witness ==
  /\ napplied >= 1
  /\ active = <<Svc2>>
  /\ QueueIDs(queue) = {"s2"}
  /\ \E w \in SchedWorkers : running[w] = "s1"

\* C17 as stated: an unchanged service keeps its NextRun, a new or changed
\* one gets a NextRun in [now, now + jitter).
C17_KeepOrJitter ==
  [][Consumed =>
       \A i \in 1..Len(active') :
         LET svc == active'[i]
             new == EntryOf(queue', svc.ID)
         IN IF svc.ID \in QueueIDs(queue)
                 /\ SameSchedule(EntryOf(queue, svc.ID).service, svc)
              THEN new.nextRun = EntryOf(queue, svc.ID).nextRun
              ELSE 0 <= new.nextRun /\ new.nextRun < jitter]_vars

\* C17 amended: an unchanged service keeps its NextRun, a new or changed one
\* gets NextRun = now when the jitter is 0 and a NextRun in [now, now + jitter)
\* otherwise.
C17_KeepOrJitterOrNow ==
  [][Consumed =>
       \A i \in 1..Len(active') :
         LET svc == active'[i]
             new == EntryOf(queue', svc.ID)
         IN IF svc.ID \in QueueIDs(queue)
                 /\ SameSchedule(EntryOf(queue, svc.ID).service, svc)
              THEN new.nextRun = EntryOf(queue, svc.ID).nextRun
              ELSE \/ jitter = 0 /\ new.nextRun = 0
                   \/ 0 <= new.nextRun /\ new.nextRun < jitter]_vars

\* with jitter 0, an update changed the interval of "s1" and only the name of
\* "s2": "s1" is due now, "s2" still waits for the NextRun it had
C17_Witness ==
  /\ napplied = 1
  /\ nupdates = 1
  /\ jitter = 0
  /\ active = <<Svc1Slower, Svc2Renamed>>
  /\ pendingUpdate = <<>>
  /\ EntryOf(queue, "s1").nextRun = 0
  /\ EntryOf(queue, "s2").nextRun > 0

C20_SubmittedAgain ==
  \A id \in SchedIDs :
    \/ []<>(cancelled \/ id \notin IDsOf(active))
    \/ []<><<Submitted(id)>>_vars

\* the timer of the service fires in this step: its entry was due and is
\* pushed back with a later NextRun
Fired(id) ==
  /\ ~Consumed
  /\ id \in QueueIDs(queue)
  /\ EntryOf(queue, id).nextRun = 0
  /\ id \in QueueIDs(queue')
  /\ EntryOf(queue', id).nextRun > 0

\* C20 amended: unless the context is cancelled or the service leaves the
\* active set, its timer fires again and again, and a probe job is submitted
\* for it again and again when the hand-off blocks on a full job channel
\* rather than dropping the tick.
C20_FiresAgain ==
  \A id \in SchedIDs :
    /\ \/ []<>(cancelled \/ id \notin IDsOf(active))
       \/ []<><<Fired(id)>>_vars
    /\ \/ []<>(cancelled \/ id \notin IDsOf(active) \/ dropWhenFull)
       \/ []<><<Submitted(id)>>_vars

\* the hand-off blocks: every worker is busy, the job channel is full and a
\* timer is due, after an update was applied
C20_Witness ==
  /\ ~dropWhenFull
  /\ cpc = "loop"
  /\ ~cancelled
  /\ napplied >= 1
  /\ Len(jobs) = workerCount
  /\ \A w \in SchedWorkers : w <= workerCount => running[w] # ""
  /\ \E it \in Items(queue) : it.nextRun = 0

\* ======================================================================
\* The schedule heap: scheduleHeap under container/heap
\* ======================================================================
MaxHeap == 4
MaxRun == 2

HeapIDs == {"svc-1", "svc-2"}

\* scheduledItem: the service (its ID) and nextRun
HeapItems == [service : HeapIDs, nextRun : 0..MaxRun]

\* scheduleHeap.Less(i, j), on 1-based positions
Less(h, i, j) == h[i].nextRun < h[j].nextRun

\* scheduleHeap.Swap(i, j)
Swap(h, i, j) == [h EXCEPT ![i] = h[j], ![j] = h[i]]

\* heap.up(h, j): position j (1-based) has its parent at j \div 2
RECURSIVE up(_, _)
up(h, j) ==
  LET i == j \div 2
  IN IF i < 1 \/ ~Less(h, j, i) THEN h ELSE up(Swap(h, i, j), i)

downNoSift(h, i, n) == h

\* heap.down(h, i, n): sift position i down inside the first n positions
RECURSIVE down(_, _, _)
down(h, i, n) ==
  LET j1 == 2 * i
      j2 == j1 + 1
      j == IF j2 <= n /\ Less(h, j2, j1) THEN j2 ELSE j1
  IN IF j1 > n THEN h
     ELSE IF ~Less(h, j, i) THEN h
     ELSE down(Swap(h, i, j), j, n)

\* heap.Push(h, x): append, then sift up
heapPush(h, x) == up(Append(h, x), Len(h) + 1)

\* heap.Pop(h): swap the root to the end, sift the new root down, cut the end
heapPop(h) ==
  LET n == Len(h)
      sifted == down(Swap(h, 1, n), 1, n - 1)
  IN [item |-> sifted[n], heap |-> SubSeq(sifted, 1, n - 1)]

\* scheduleHeap.Peek(): nil on an empty heap, else the root
Peek(h) == IF Len(h) = 0 THEN <<>> ELSE <<h[1]>>

ProgramIdle ==
  /\ routes = <<>>
  /\ EngineFresh
  /\ RouterIdle
  /\ SchedOff

\* newScheduleHeap()
HeapInit ==
  /\ ProgramIdle
  /\ AuxIdle

HeapPush(x) ==
  /\ Len(heap) < MaxHeap
  /\ heap' = heapPush(heap, x)
  /\ popped' = <<>>
  /\ hop' = "push"
  /\ hret' = <<>>
  /\ UNCHANGED <<wk, engineVars, routerVars, schedVars, reloadVars, checkVars, mail, validateVars>>

HeapPop ==
  /\ Len(heap) > 0
  /\ LET r == heapPop(heap)
     IN /\ heap' = r.heap
        /\ popped' = Append(popped, r.item)
        /\ hret' = <<r.item>>
  /\ hop' = "pop"
  /\ UNCHANGED <<wk, engineVars, routerVars, schedVars, reloadVars, checkVars, mail, validateVars>>

HeapPeek ==
  /\ hret' = Peek(heap)
  /\ hop' = "peek"
  /\ UNCHANGED <<heap, popped>>
  /\ UNCHANGED <<wk, engineVars, routerVars, schedVars, reloadVars, checkVars, mail, validateVars>>

HeapNext ==
  \/ \E x \in HeapItems : HeapPush(x)
  \/ HeapPop
  \/ HeapPeek

HeapSpec == HeapInit /\ [][HeapNext]_vars

\* ---- C21 ----
SeqToBag(h) == BagOfAll(LAMBDA i : h[i], SetToBag(1..Len(h)))

NonDecreasing(seq) ==
  \A i \in 1..(Len(seq) - 1) : seq[i].nextRun <= seq[i + 1].nextRun

IsEarliest(x, h) ==
  /\ \E i \in 1..Len(h) : h[i] = x
  /\ \A i \in 1..Len(h) : x.nextRun <= h[i].nextRun

\* C21: a Pop returns an item of the heap with the least NextRun and takes
\* exactly that item out, so one push followed by a pop returns the pushed
\* item, and the items popped after any sequence of pushes come out with
\* non-decreasing NextRun until the heap is empty; Peek returns the earliest
\* item and leaves the heap as it was, and returns nil on an empty heap.
C21_HeapOrder ==
  [][/\ hop' = "push" =>
          \E x \in HeapItems : SeqToBag(heap') = SeqToBag(heap) (+) SetToBag({x})
     /\ hop' = "pop" =>
          /\ Len(hret') = 1
          /\ IsEarliest(hret'[1], heap)
          /\ SeqToBag(heap') = SeqToBag(heap) (-) SetToBag({hret'[1]})
          /\ Len(heap') = Len(heap) - 1
          /\ Len(heap) = 1 => hret' = <<heap[1]>> /\ heap' = <<>>
     /\ NonDecreasing(popped')
     /\ hop' = "peek" =>
          /\ heap' = heap
          /\ heap = <<>> => hret' = <<>>
          /\ heap # <<>> => Len(hret') = 1 /\ IsEarliest(hret'[1], heap)]_vars

\* four items pushed in some order have all been popped, with distinct times
C21_Witness ==
  /\ hop = "pop"
  /\ heap = <<>>
  /\ Len(popped) = MaxHeap
  /\ popped[1].nextRun < popped[2].nextRun
  /\ popped[3].nextRun < popped[4].nextRun

\* ======================================================================
\* The engine on a configuration whose routes name a missing channel
\* ======================================================================
\* policies of the routes: threshold 1 or 2, no cooldown, recovery alerts
DispatchPolicies ==
  {p \in RawPolicies :
     p.FailureThreshold \in {1, 2} /\ p.Cooldown = "0s" /\ p.RecoveryAlert}

\* "a" is routed to a missing channel, a webhook and an email channel, in this
\* order; "c" is routed to the missing channel only; "d" has no route
DispatchConfig(p) ==
  << [Match |-> <<"a">>, Policy |-> p, Notify |-> <<"gone", "ops", "mail">>],
     [Match |-> <<"c">>, Policy |-> p, Notify |-> <<"gone">>] >>

DispatchInit ==
  /\ \E p \in DispatchPolicies : routes = NewEngine(DispatchConfig(p))
  /\ EngineFresh
  /\ RouterIdle
  /\ SchedOff
  /\ AuxIdle

DispatchSpec == DispatchInit /\ [][Next]_vars

\* ---- C22 ----
\* the names of a notify list that have a channel, in order
RECURSIVE Present(_)
Present(names) ==
  IF names = <<>> THEN <<>>
  ELSE (IF Head(names) \in {"ops", "mail"} THEN <<Head(names)>> ELSE <<>>)
         \o Present(Tail(names))

Dispatching(w) == pc[w] = "dispatch" /\ pc'[w] # "dispatch"

NewSends == SubSeq(delivered', Len(delivered) + 1, Len(delivered'))

\* C22: a dispatch, whatever the outcome of each of its sends, leaves every
\* service state as it is, makes one send per channel of the route that
\* exists (no second attempt after an error, and the channels after a failed
\* or missing one are still attempted), and ends the call.
C22_FailureLeavesState ==
  [][\A w \in Workers :
       Dispatching(w) =>
         /\ state' = state
         /\ pc'[w] = "idle"
         /\ [i \in 1..Len(NewSends) |-> NewSends[i].channel] = Present(job[w].route.notify)
         /\ \A i \in 1..Len(NewSends) :
              NewSends[i].svc = job[w].svc /\ NewSends[i].kind = job[w].payload.kind]_vars

\* the webhook send of a down payload failed, the email send after it was
\* made, and the service is still recorded as down and notified
C22_Witness ==
  /\ \E i \in 1..(Len(delivered) - 1) :
       /\ delivered[i].channel = "ops" /\ ~delivered[i].ok /\ delivered[i].kind = "down"
       /\ delivered[i + 1].channel = "mail" /\ delivered[i + 1].svc = delivered[i].svc
  /\ warnings >= 1
  /\ "a" \in DOMAIN state
  /\ state["a"].State = StateDown
  /\ state["a"].DownNotified

\* ---- C23 ----
AllIdle == \A w \in Workers : pc[w] = "idle"

RECURSIVE StagedIn(_)
StagedIn(h) ==
  IF h = <<>> THEN 0
  ELSE (IF Head(h).kind # "none" THEN 1 ELSE 0) + StagedIn(Tail(h))

NoDeliveryFor(s) == \A i \in 1..Len(delivered) : delivered[i].svc # s

\* C23 as stated: "c" is routed to a missing channel only; once every call has
\* returned and only "c" was probed, there is one warning per handled result
\* and no delivery.
C23_WarningPerResult ==
  (AllIdle /\ ncalls["a"] = 0) =>
    /\ warnings = Len(hist["c"])
    /\ NoDeliveryFor("c")

\* C23 amended: there is one warning per handled result that staged a
\* payload, none for a result that staged none, and no delivery.
C23_WarningPerPayload ==
  (AllIdle /\ ncalls["a"] = 0) =>
    /\ warnings = StagedIn(hist["c"])
    /\ NoDeliveryFor("c")

\* "c" was probed three times: one result staged no payload, two staged one
C23_Witness ==
  /\ AllIdle
  /\ ncalls["a"] = 0
  /\ Len(hist["c"]) = 3
  /\ StagedIn(hist["c"]) = 2
  /\ warnings = 2

\* ======================================================================
\* Configuration reload: the producer of UpdateServices calls
\* ======================================================================
MaxFailed == 2

\* variant: the gauge is only ever set to 1
reloadGaugeSticky(ok) == 1

\* the value the reload handler stores in uptiq_config_reload_success
reloadGauge(ok) == IF ok THEN 1 ELSE 0

\* the scheduler started with two services, one worker, no jitter
ReloadInit ==
  /\ SchedInit
  /\ workerCount = 1
  /\ jitter = 0
  /\ ~dropWhenFull
  /\ active = <<Svc1, Svc2>>

\* the new configuration parsed and validated: the gauge is set to 1 and the
\* new service list is handed to the scheduler
ReloadOk(list) ==
  /\ UpdateCall(list)
  /\ reloadSuccess' = reloadGauge(TRUE)
  /\ UNCHANGED <<wk, nfailed, heapVars, checkVars, mail, validateVars>>

\* the new configuration failed to parse: the gauge is set to 0 and the
\* scheduler is not called
ReloadFail ==
  /\ cpc = "loop"
  /\ nfailed < MaxFailed
  /\ nfailed' = nfailed + 1
  /\ reloadSuccess' = reloadGauge(FALSE)
  /\ UNCHANGED <<wk, engineVars, routerVars, schedVars, heapVars, checkVars, mail, validateVars>>

ReloadNext ==
  \/ \E list \in ServiceLists : ReloadOk(list)
  \/ ReloadFail
  \/ TimerFire
  \/ ConsumeUpdate
  \/ ObserveCancel
  \/ Return
  \/ \E w \in SchedWorkers : WorkerTake(w)
  \/ \E w \in SchedWorkers : WorkerFinish(w)
  \/ Cancel
  \/ SchedTick

ReloadSpec == ReloadInit /\ [][ReloadNext]_vars

ToUpper(s) ==
  CASE s = "get" -> "GET"
    [] s = "head" -> "HEAD"
    [] OTHER -> s

\* strings.Contains(body, sub) on the bodies and needles used here
strContains(body, sub) ==
  CASE sub = "" -> TRUE
    [] sub = " " -> body = "x a y"
    [] sub = "a" -> body \in {"a", "x a y"}
    [] sub = " a " -> body = "x a y"
    [] OTHER -> FALSE

\* err.Error() of the *net.OpError a failed dial returns
opError(inner) == "dial tcp: " \o inner

\* err.Error() of the *url.Error http.Client.Do returns
urlError(method, inner) == method \o " \"url\": " \o inner

\* messages of the innermost error, the empty message included
InnerErrors == {"", "connection refused", "i/o timeout"}

\* the services probed
CheckServices ==
  [Type : {"tcp"}, Method : {""}, URL : {""}, ExpectedStatus : {<<>>}, Contains : {""}]
    \cup [Type : {"http"}, Method : {"get", "GET", "bad method"},
          URL : {"http://srv/", "://bad"},
          ExpectedStatus : {<<>>, <<200>>, <<404, 200>>},
          Contains : {"", " ", "a", " a "}]

StatusCodes == {199, 200, 399, 400, 404}

\* what the network does: err is <<>> or <<message>> for the dial or the round
\* trip, then the status, the outcome of reading the body, and the body
CheckWorlds ==
  [err : {<<>>} \cup {<<e>> : e \in InnerErrors}, status : StatusCodes,
   readErr : {<<>>} \cup {<<e>> : e \in InnerErrors}, body : {"", "a", "x a y"}]

\* http.NewRequestWithContext fails on an invalid method or an unparsable URL
buildError(method, url) ==
  IF method \notin {"GET", "HEAD"} THEN <<"invalid method">>
  ELSE IF url = "://bad" THEN <<"missing protocol scheme">>
  ELSE <<>>

\* TCPChecker.Check
tcpCheck(svc, world) ==
  IF world.err # <<>>
    THEN [Success |-> FALSE, StatusCode |-> 0, Error |-> opError(world.err[1])]
    ELSE [Success |-> TRUE, StatusCode |-> 0, Error |-> ""]

statusAllowed(svc, code) ==
  IF Len(svc.ExpectedStatus) > 0
    THEN \E i \in 1..Len(svc.ExpectedStatus) : svc.ExpectedStatus[i] = code
    ELSE ~(code < 200 \/ code >= 400)

\* variant: an unexpected status sets Error and leaves Success as it was
httpCheckStatusKeepsSuccess(svc, world) ==
  LET method == ToUpper(svc.Method)
      berr == buildError(method, svc.URL)
      res == [Success |-> TRUE, StatusCode |-> world.status, Error |-> ""]
  IN IF berr # <<>>
       THEN [Success |-> FALSE, StatusCode |-> 0, Error |-> "build request: " \o berr[1]]
     ELSE IF world.err # <<>>
       THEN [Success |-> FALSE, StatusCode |-> 0, Error |-> urlError(method, world.err[1])]
     ELSE IF ~statusAllowed(svc, world.status)
       THEN [res EXCEPT !.Error = "unexpected status " \o ToString(world.status)]
     ELSE IF TrimSpace(svc.Contains) # ""
       THEN IF world.readErr # <<>>
              THEN [res EXCEPT !.Success = FALSE,
                               !.Error = "read body: " \o world.readErr[1]]
            ELSE IF ~strContains(world.body, svc.Contains)
              THEN [res EXCEPT !.Success = FALSE,
                               !.Error = "response does not contain expected content"]
            ELSE res
     ELSE res

\* HTTPChecker.Check
httpCheck(svc, world) ==
  LET method == ToUpper(svc.Method)
      berr == buildError(method, svc.URL)
      res == [Success |-> TRUE, StatusCode |-> world.status, Error |-> ""]
  IN IF berr # <<>>
       THEN [Success |-> FALSE, StatusCode |-> 0, Error |-> "build request: " \o berr[1]]
     ELSE IF world.err # <<>>
       THEN [Success |-> FALSE, StatusCode |-> 0, Error |-> urlError(method, world.err[1])]
     ELSE IF ~statusAllowed(svc, world.status)
       THEN [res EXCEPT !.Success = FALSE,
                        !.Error = "unexpected status " \o ToString(world.status)]
     ELSE IF TrimSpace(svc.Contains) # ""
       THEN IF world.readErr # <<>>
              THEN [res EXCEPT !.Success = FALSE,
                               !.Error = "read body: " \o world.readErr[1]]
            ELSE IF ~strContains(world.body, svc.Contains)
              THEN [res EXCEPT !.Success = FALSE,
                               !.Error = "response does not contain expected content"]
            ELSE res
     ELSE res

CheckInit ==
  /\ ProgramIdle
  /\ WorkIdle
  /\ HeapIdle
  /\ ReloadIdle
  /\ MailIdle
  /\ ValidateIdle
  /\ \E svc \in CheckServices, world \in CheckWorlds : creq = <<svc, world>>
  /\ cres = NoResult

TCPCheck ==
  /\ cres = NoResult
  /\ creq[1].Type = "tcp"
  /\ cres' = tcpCheck(creq[1], creq[2])
  /\ UNCHANGED <<wk, creq, engineVars, routerVars, schedVars, heapVars, reloadVars, mail, validateVars>>

HTTPCheck ==
  /\ cres = NoResult
  /\ creq[1].Type = "http"
  /\ cres' = httpCheck(creq[1], creq[2])
  /\ UNCHANGED <<wk, creq, engineVars, routerVars, schedVars, heapVars, reloadVars, mail, validateVars>>

CheckNext == TCPCheck \/ HTTPCheck

CheckSpec == CheckInit /\ [][CheckNext]_vars

\* ---- C25 ----
\* C25: every Result a checker returns has an empty Error when Success is
\* set, and a non-empty Error when it is not.
C25_SuccessIffNoError ==
  cres # NoResult =>
    /\ cres.Success => cres.Error = ""
    /\ ~cres.Success => cres.Error # ""

\* an HTTP probe answered with an allowed status and a body without the
\* expected content
C25_Witness ==
  /\ cres # NoResult
  /\ creq[1].Type = "http"
  /\ ~cres.Success
  /\ cres.StatusCode = 200
  /\ cres.Error = "response does not contain expected content"

\* ======================================================================
\* Engine.sendEmail: the SMTP dialogue of one email alert
\* ======================================================================
ImplicitTLSPort == 465

\* the email channels handed to sendEmail
MailChannels ==
  [SMTPHost : {" ", "smtp"}, SMTPPort : {0, 25, ImplicitTLSPort},
   Username : {"", " ", "user"}, Password : {"", "pw"},
   From : {"", "a@x", "a@"}, To : {<<>>, <<" ">>, <<"b@x", " ", "c@x">>}]

\* mail.ParseAddress fails on an address without a domain
parseAddressFails(s) == TrimSpace(s) = "a@"

\* the recipients left after trimming and dropping the blank ones
toAddrs(ch) == trimAll(ch.To)

\* lines 17-52: the checks made before any connection
mailConfigError(ch) ==
  IF TrimSpace(ch.SMTPHost) = "" THEN "smtp_host is empty"
  ELSE IF ch.SMTPPort = 0 THEN "smtp_port is empty/0"
  ELSE IF TrimSpace(ch.From) = "" THEN "from is empty"
  ELSE IF Len(ch.To) = 0 THEN "to list is empty"
  ELSE IF parseAddressFails(ch.From) THEN "parse from"
  ELSE IF Len(toAddrs(ch)) = 0 THEN "no valid recipients in to list"
  ELSE ""

authConfigured(ch) == TrimSpace(ch.Username) # "" \/ TrimSpace(ch.Password) # ""

\* variant: credentials are sent whether or not the connection is secured
authRefusedNever(ch, isTLS) == FALSE

\* lines 127-131: refuse to send credentials without TLS
authRefused(ch, isTLS) == authConfigured(ch) /\ ~isTLS

Failed(m, err) == [m EXCEPT !.pc = "done", !.err = err]

Said(m, cmd) == [m EXCEPT !.wire = Append(@, cmd)]

MailInit ==
  /\ ProgramIdle
  /\ WorkIdle
  /\ HeapIdle
  /\ ReloadIdle
  /\ CheckIdle
  /\ ValidateIdle
  /\ \E ch \in MailChannels :
       mail = [ch |-> ch, pc |-> "start", isTLS |-> FALSE, wire |-> <<>>,
               err |-> "", rcpt |-> 1]

MailFrame ==
  UNCHANGED <<wk, engineVars, routerVars, schedVars, heapVars, reloadVars, checkVars, validateVars>>

\* the configuration checks and the construction of the message
MailValidate ==
  /\ mail # <<>> /\ mail.pc = "start"
  /\ mail' = IF mailConfigError(mail.ch) # ""
               THEN Failed(mail, mailConfigError(mail.ch))
               ELSE [mail EXCEPT !.pc = "dial"]
  /\ MailFrame

\* the dial under the context: connected, dial error, or context done
MailDial ==
  /\ mail # <<>> /\ mail.pc = "dial"
  /\ \E out \in {"ok", "error", "ctx"} :
       mail' = CASE out = "ok" -> [mail EXCEPT !.pc = "tls"]
                 [] out = "error" -> Failed(mail, "dial smtp")
                 [] OTHER -> Failed(mail, "context deadline exceeded")
  /\ MailFrame

\* port 465: the TLS handshake before any SMTP command
MailImplicitTLS ==
  /\ mail # <<>> /\ mail.pc = "tls"
  /\ \E ok \in BOOLEAN :
       mail' = IF mail.ch.SMTPPort # ImplicitTLSPort THEN [mail EXCEPT !.pc = "client"]
               ELSE IF ok THEN [Said(mail, "TLS") EXCEPT !.pc = "client", !.isTLS = TRUE]
               ELSE Failed(mail, "tls handshake")
  /\ MailFrame

\* smtp.NewClient: the server's greeting
MailNewClient ==
  /\ mail # <<>> /\ mail.pc = "client"
  /\ \E ok \in BOOLEAN :
       mail' = IF ok THEN [mail EXCEPT !.pc = "starttls"] ELSE Failed(mail, "smtp client")
  /\ MailFrame

\* STARTTLS when the server offers it and the connection is not yet secured
MailStartTLS ==
  /\ mail # <<>> /\ mail.pc = "starttls"
  /\ \E offered \in BOOLEAN, ok \in BOOLEAN :
       mail' = IF mail.ch.SMTPPort = ImplicitTLSPort THEN [mail EXCEPT !.pc = "auth"]
               ELSE IF ~offered THEN [Said(mail, "EHLO") EXCEPT !.pc = "auth"]
               ELSE IF ok
                 THEN [Said(Said(Said(mail, "EHLO"), "STARTTLS"), "TLS")
                         EXCEPT !.pc = "auth", !.isTLS = TRUE]
               ELSE Failed(Said(Said(mail, "EHLO"), "STARTTLS"), "starttls")
  /\ MailFrame

\* the refusal without TLS, then AUTH when a username is configured
MailAuth ==
  /\ mail # <<>> /\ mail.pc = "auth"
  /\ \E ok \in BOOLEAN :
       mail' = IF authRefused(mail.ch, mail.isTLS)
                 THEN Failed(mail, "refusing to authenticate without TLS")
               ELSE IF TrimSpace(mail.ch.Username) = "" THEN [mail EXCEPT !.pc = "mail"]
               ELSE IF ok THEN [Said(mail, "AUTH") EXCEPT !.pc = "mail"]
               ELSE Failed(Said(mail, "AUTH"), "smtp auth")
  /\ MailFrame

\* MAIL FROM
MailFrom ==
  /\ mail # <<>> /\ mail.pc = "mail"
  /\ \E ok \in BOOLEAN :
       mail' = IF ok THEN [Said(mail, "MAIL") EXCEPT !.pc = "rcpt"]
               ELSE Failed(Said(mail, "MAIL"), "mail from")
  /\ MailFrame

\* RCPT TO for the next recipient
MailRcpt ==
  /\ mail # <<>> /\ mail.pc = "rcpt"
  /\ \E ok \in BOOLEAN :
       mail' = IF ~ok THEN Failed(Said(mail, "RCPT"), "rcpt to")
               ELSE [Said(mail, "RCPT") EXCEPT
                       !.rcpt = @ + 1,
                       !.pc = IF mail.rcpt = Len(toAddrs(mail.ch)) THEN "data" ELSE "rcpt"]
  /\ MailFrame

\* DATA, the message, and QUIT
MailData ==
  /\ mail # <<>> /\ mail.pc = "data"
  /\ \E out \in {"ok", "data", "write data", "close data"} :
       mail' = IF out = "ok" THEN [Said(Said(mail, "DATA"), "QUIT") EXCEPT !.pc = "done"]
               ELSE Failed(Said(mail, "DATA"), out)
  /\ MailFrame

MailNext ==
  \/ MailValidate
  \/ MailDial
  \/ MailImplicitTLS
  \/ MailNewClient
  \/ MailStartTLS
  \/ MailAuth
  \/ MailFrom
  \/ MailRcpt
  \/ MailData

MailSpec == MailInit /\ [][MailNext]_vars

\* ---- C26 ----
Credentials(ch) == TrimSpace(ch.Username) # "" \/ TrimSpace(ch.Password) # ""

SecuredBefore(wire, i) == \E j \in 1..(i - 1) : wire[j] = "TLS"

\* C26: AUTH is only sent on a connection on which a TLS handshake succeeded
\* before (implicit TLS on port 465, or STARTTLS); a call with a username or a
\* password configured that reaches the end of the negotiation without TLS
\* sends none of AUTH, MAIL, RCPT, DATA and returns an error.
C26_NoAuthWithoutTLS ==
  mail # <<>> =>
    /\ \A i \in 1..Len(mail.wire) : mail.wire[i] = "AUTH" => SecuredBefore(mail.wire, i)
    /\ (Credentials(mail.ch) /\ ~SecuredBefore(mail.wire, Len(mail.wire) + 1)) =>
         /\ \A i \in 1..Len(mail.wire) : mail.wire[i] \notin {"AUTH", "MAIL", "RCPT", "DATA"}
         /\ mail.pc \notin {"mail", "rcpt", "data"}
         /\ mail.pc = "done" => mail.err # ""

\* only a password is configured, the server on port 25 offers no STARTTLS:
\* the call ended with the refusal and sent nothing but EHLO
C26_Witness ==
  /\ mail # <<>>
  /\ mail.pc = "done"
  /\ mail.ch.SMTPPort = 25
  /\ mail.ch.Username = " "
  /\ mail.ch.Password = "pw"
  /\ mail.wire = <<"EHLO">>
  /\ mail.err = "refusing to authenticate without TLS"

\* ======================================================================
\* SitelertConfig.Validate
\* ======================================================================
MaxServices == 2
MaxPort == 65535

\* service ids, as the sequence of their characters
ValidateIDs ==
  {<<>>, <<"a">>, <<"b", "-", "1">>, <<"A", "_">>, <<"a", " ">>, <<"a", "/", "b">>}

\* the character class [a-zA-Z0-9_-] of idPattern, on the characters used here
idClass == {"a", "b", "A", "1", "_", "-"}

\* idRegex.MatchString(id) for ^[a-zA-Z0-9_-]+$
isSafeID(id) == Len(id) >= 1 /\ \A i \in 1..Len(id) : id[i] \in idClass

\* strings.ToLower on the types used here
ToLower(s) ==
  CASE s = "Slack" -> "slack"
    [] s = "HTTP" -> "http"
    [] OTHER -> s

ValidateServices ==
  [ID : ValidateIDs, Name : {"", "n"}, Type : {"HTTP"}, URL : {"u"}, Host : {""},
   Port : {0}, Interval : {"1m"}, Timeout : {"1m"}]
    \cup [ID : {<<"a">>}, Name : {"n"}, Type : {"tcp"}, URL : {""}, Host : {"h"},
          Port : {0, MaxPort}, Interval : {"1m"}, Timeout : {"1m"}]
    \cup [ID : {<<"a">>}, Name : {"n"}, Type : {"ftp"}, URL : {""}, Host : {""},
          Port : {0}, Interval : {"abc"}, Timeout : {"1m", ""}]

ValidateChannels ==
  [Type : {"discord", "Slack"}, WebhookURL : {"", " ", "https://hook"}, SMTPHost : {""},
   SMTPPort : {0}, Username : {""}, Password : {""}, From : {""}, To : {<<>>}]
    \cup [Type : {"email"}, WebhookURL : {""}, SMTPHost : {" ", "smtp"}, SMTPPort : {0, 587},
          Username : {"", "user"}, Password : {"", "pw"}, From : {"", "a@x"},
          To : {<<>>, <<"b@x">>}]
    \cup [Type : {"", "telegram"}, WebhookURL : {""}, SMTPHost : {""}, SMTPPort : {0},
          Username : {""}, Password : {""}, From : {""}, To : {<<>>}]

ValidateGlobals ==
  [ScrapeBind : {"0.0.0.0:8080"}, DefaultTimeout : {"1m"}, DefaultInterval : {"1m"},
   Jitter : {"0s"}, WorkerCount : {10, MaxWorkerCount + 1}]

ValidateRoutes ==
  {<<>>, <<[Match |-> <<"a">>,
            Policy |-> [FailureThreshold |-> 1, Cooldown |-> "abc", RecoveryAlert |-> FALSE],
            Notify |-> <<"test", "gone">>]>>}

\* net.SplitHostPort fails on an address without a port
splitHostPortFails(s) == s # "0.0.0.0:8080"

validateGlobalConfig(g) ==
  (IF splitHostPortFails(g.ScrapeBind) THEN {<<"global", "", "scrape_bind">>} ELSE {})
    \cup (IF ParseDuration(g.DefaultTimeout).err THEN {<<"global", "", "default_timeout">>} ELSE {})
    \cup (IF ParseDuration(g.DefaultInterval).err THEN {<<"global", "", "default_interval">>} ELSE {})
    \cup (IF ParseDuration(g.Jitter).err THEN {<<"global", "", "jitter">>} ELSE {})
    \cup (IF g.WorkerCount < MinWorkerCount \/ g.WorkerCount > MaxWorkerCount
            THEN {<<"global", "", "worker_count">>} ELSE {})

\* variant: the id is never recorded in seenIDs
seenBeforeNever(services, i) == FALSE

\* _, ok := seenIDs[s.ID]: an earlier service with a non-empty id has this id
seenBefore(services, i) ==
  \E j \in 1..(i - 1) : services[j].ID # <<>> /\ services[j].ID = services[i].ID

validateService(services, i) ==
  LET s == services[i]
      t == ToLower(s.Type)
  IN (IF s.ID = <<>> THEN {<<"services", ToString(i), "id is required">>}
      ELSE (IF ~isSafeID(s.ID) THEN {<<"services", ToString(i), "id contains invalid characters">>} ELSE {})
             \cup (IF seenBefore(services, i) THEN {<<"services", ToString(i), "id is duplicated">>} ELSE {}))
       \cup (IF s.Name = "" THEN {<<"services", ToString(i), "name is required">>} ELSE {})
       \cup (CASE t = "http" -> IF s.URL = "" THEN {<<"services", ToString(i), "url is required">>} ELSE {}
               [] t = "tcp" ->
                    (IF s.Host = "" THEN {<<"services", ToString(i), "host is required">>} ELSE {})
                      \cup (IF s.Port <= 0 \/ s.Port > MaxPort
                              THEN {<<"services", ToString(i), "port must be between 1 and 65535">>} ELSE {})
               [] OTHER -> {<<"services", ToString(i), "type must be either http or tcp">>})
       \cup (IF ParseDuration(s.Interval).err THEN {<<"services", ToString(i), "interval">>} ELSE {})
       \cup (IF ParseDuration(s.Timeout).err THEN {<<"services", ToString(i), "timeout">>} ELSE {})

validateChannel(name, ch) ==
  LET t == ToLower(ch.Type)
  IN IF name = "" THEN {<<"channels", name, "empty name">>}
     ELSE CASE t = "" -> {}
            [] t \in {"discord", "slack"} ->
                 IF TrimSpace(ch.WebhookURL) = ""
                   THEN {<<"channels", name, "webhook_url is required">>} ELSE {}
            [] t = "email" ->
                 (IF TrimSpace(ch.SMTPHost) = "" THEN {<<"channels", name, "smtp_host is required">>} ELSE {})
                   \cup (IF ch.SMTPPort = 0 THEN {<<"channels", name, "smtp_port is required">>} ELSE {})
                   \cup (IF TrimSpace(ch.From) = "" THEN {<<"channels", name, "from is required">>} ELSE {})
                   \cup (IF Len(ch.To) = 0 THEN {<<"channels", name, "to is required">>} ELSE {})
            [] OTHER -> {<<"channels", name, "type must be one of: discord, slack, email">>}

validateRoute(cfg, i) ==
  LET r == cfg.Routes[i]
  IN {<<"routes", ToString(i), "undefined channel " \o r.Notify[k]>> :
        k \in {k \in 1..Len(r.Notify) : r.Notify[k] \notin DOMAIN cfg.Channels}}
       \cup (IF r.Policy.Cooldown # "" /\ ParseDuration(r.Policy.Cooldown).err
               THEN {<<"routes", ToString(i), "policy.cooldown">>} ELSE {})

\* cfg.Validate(): the error messages collected; nil is returned when there is none
Validate(cfg) ==
  validateGlobalConfig(cfg.Global)
    \cup UNION {validateService(cfg.Services, i) : i \in 1..Len(cfg.Services)}
    \cup UNION {validateChannel(n, cfg.Channels[n]) : n \in DOMAIN cfg.Channels}
    \cup (IF Len(cfg.Routes) > 0 /\ DOMAIN cfg.Channels = {}
            THEN {<<"routes", "", "defined but no alerting.channels present">>} ELSE {})
    \cup UNION {validateRoute(cfg, i) : i \in 1..Len(cfg.Routes)}

ValidateConfigs ==
  [Global : ValidateGlobals,
   Services : UNION {[1..k -> ValidateServices] : k \in 0..MaxServices},
   Channels : {[n \in {} |-> 0]} \cup {[n \in {"test"} |-> ch] : ch \in ValidateChannels},
   Routes : ValidateRoutes]

ValidateInit ==
  /\ ProgramIdle
  /\ WorkIdle
  /\ HeapIdle
  /\ ReloadIdle
  /\ CheckIdle
  /\ MailIdle
  /\ vcfg \in ValidateConfigs
  /\ vres = <<>>

ValidateCall ==
  /\ vres = <<>>
  /\ vres' = <<Validate(vcfg)>>
  /\ UNCHANGED <<wk, vcfg, engineVars, routerVars, schedVars, heapVars, reloadVars, checkVars, mail>>

ValidateSpec == ValidateInit /\ [][ValidateCall]_vars

\* ---- C27 ----
Validated == vres # <<>> /\ vres[1] = {}

SharedID(services) ==
  \E i, j \in 1..Len(services) : i # j /\ services[i].ID = services[j].ID

Letters == {"a", "b", "A"}
Digits == {"1"}

BadCharacter(id) == \E k \in 1..Len(id) : id[k] \notin Letters \cup Digits \cup {"_", "-"}

\* C27: Validate returns an error when two services share an ID or an ID has
\* a character outside letters, digits, underscore and hyphen; the services
\* of a configuration it accepts have pairwise different, non-empty IDs made
\* of these characters only.
C27_IDsUniqueAndSafe ==
  vres # <<>> =>
    /\ SharedID(vcfg.Services) => vres[1] # {}
    /\ (\E i \in 1..Len(vcfg.Services) : BadCharacter(vcfg.Services[i].ID)) => vres[1] # {}
    /\ Validated =>
         /\ ~SharedID(vcfg.Services)
         /\ \A i \in 1..Len(vcfg.Services) :
              vcfg.Services[i].ID # <<>> /\ ~BadCharacter(vcfg.Services[i].ID)

\* two services with the same well-formed ID: the duplicate is the only error
C27_Witness ==
  /\ vres = <<{<<"services", "2", "id is duplicated">>}>>
  /\ Len(vcfg.Services) = 2
  /\ vcfg.Services[1].ID = <<"b", "-", "1">>

\* ---- C28 ----
InvalidShape(ch) ==
  LET t == ToLower(ch.Type)
  IN \/ t \in {"discord", "slack"} /\ TrimSpace(ch.WebhookURL) = ""
     \/ t = "email" /\ (\/ TrimSpace(ch.SMTPHost) = ""
                        \/ ch.SMTPPort = 0
                        \/ TrimSpace(ch.From) = ""
                        \/ Len(ch.To) = 0
                        \/ ch.Username # "" /\ ch.Password = "")
     \/ t \notin {"", "discord", "slack", "email"}

\* C28: Validate returns an error for a configuration with a channel of an
\* invalid shape: discord or slack with a blank webhook_url, email without
\* smtp_host, smtp_port, from or to, email with a username and an empty
\* password, or a type that is none of discord, slack and email.
C28_InvalidChannelRejected ==
  vres # <<>> =>
    \A n \in DOMAIN vcfg.Channels : InvalidShape(vcfg.Channels[n]) => vres[1] # {}

\* ======================================================================
\* The engine's state map and mutex across calls
\* ======================================================================
\* ---- C29 ----
\* C29: an entry of the state map, once created, stays in the map, and it
\* changes only in the locked section of a call for its own service, which
\* starts from the entry as it was left, however long ago and whatever
\* happened to other services in between.
C29_StateKept ==
  [][\A s \in DOMAIN state :
       /\ s \in DOMAIN state'
       /\ state'[s] # state[s] =>
            \E w \in Workers :
              /\ pc[w] = "critical"
              /\ job[w].svc = s
              /\ last'[s].pre = state[s]
              /\ last'[s].post = state'[s]]_vars

\* "a" was left down and notified, "c" was probed, a minute passed, and the
\* next failure of "a" continued its failure count
C29_Witness ==
  /\ {"a", "c"} \subseteq DOMAIN state
  /\ last["a"].n >= 2
  /\ last["a"].pre.State = StateDown
  /\ last["a"].pre.DownNotified
  /\ last["a"].now > last["a"].pre.LastResultAt
  /\ ~last["a"].success
  /\ state["a"].ConsecutiveFailures = last["a"].pre.ConsecutiveFailures + 1

\* ---- C30 ----
\* C30: a caller holds the mutex exactly while it is in the locked section:
\* not before e.mu.Lock(), not while it dispatches, not after it returned; the
\* mutex is free or held by one caller in its locked section.
C30_UnlockedOutsideCritical ==
  /\ mu \in {0} \cup Workers
  /\ \A w \in Workers : mu = w <=> pc[w] = "critical"

\* one caller delivers a payload while another is in its locked section
C30_Witness ==
  /\ pc[1] = "dispatch"
  /\ pc[2] = "critical"
  /\ mu = 2
  /\ job[1].svc = job[2].svc


\* ======================================================================
\* HandleResult statement by statement inside the critical section
\* ======================================================================
\* lines 211-215: st := e.state[svc.ID], created as Unknown when absent; the
\* call keeps the fields of *st as it loaded them
Fetch(w) ==
  /\ pc[w] = "critical"
  /\ LET j == job[w]
         st0 == lookupState(state, j.svc)
     IN /\ state' = storeState(state, j.svc, st0)
        /\ job' = [job EXCEPT ![w] = [svc |-> j.svc, success |-> j.success, now |-> j.now,
                                      route |-> j.route, payload |-> j.payload, st |-> st0]]
  /\ pc' = [pc EXCEPT ![w] = "update"]
  /\ UNCHANGED <<routerVars, schedVars, auxVars, routes, mu, clock, delivered, warnings, ncalls, hist, last>>

\* lines 216-292: the writes to *st, the staging of the payload and e.mu.Unlock()
Update(w) ==
  /\ pc[w] = "update"
  /\ LET j == job[w]
         r == handleLocked(j.st, j.route.policy, j.success, j.now)
     IN /\ state' = storeState(state, j.svc, r.st)
        /\ hist' = [hist EXCEPT ![j.svc] =
                      Append(@, [success |-> j.success, kind |-> r.payload.kind,
                                 reminder |-> r.payload.reminder, state |-> r.st.State,
                                 now |-> j.now, failures |-> r.payload.failures])]
        /\ last' = [last EXCEPT ![j.svc] =
                      [n |-> Len(hist[j.svc]) + 1, success |-> j.success, now |-> j.now,
                       pre |-> j.st, post |-> r.st, payload |-> r.payload,
                       policy |-> j.route.policy]]
        /\ IF r.payload.kind # "none"
             THEN /\ pc' = [pc EXCEPT ![w] = "dispatch"]
                  /\ job' = [job EXCEPT ![w] = [svc |-> j.svc, success |-> j.success,
                                                now |-> j.now, route |-> j.route,
                                                payload |-> r.payload]]
             ELSE /\ pc' = [pc EXCEPT ![w] = "idle"]
                  /\ job' = [job EXCEPT ![w] = NoJob]
  /\ mu' = 0
  /\ UNCHANGED <<routerVars, schedVars, auxVars, routes, clock, delivered, warnings, ncalls>>

StepNext ==
  \/ \E w \in Workers, svc \in ServiceIDs, success \in BOOLEAN : Begin(w, svc, success)
  \/ \E w \in Workers : Lock(w)
  \/ \E w \in Workers : Fetch(w)
  \/ \E w \in Workers : Update(w)
  \/ \E w \in Workers : Dispatch(w)
  \/ Tick

StepSpec == Init /\ [][StepNext]_vars

\* the calls h[1..n] made one after the other on a fresh service, each with
\* the result and the timestamp it carries
RECURSIVE Replay(_, _, _)
Replay(h, policy, n) ==
  IF n = 0 THEN [st |-> newServiceState, payload |-> NoPayload]
  ELSE handleLocked(Replay(h, policy, n - 1).st, policy, h[n].success, h[n].now)

\* C31: whatever the interleaving of concurrent HandleResult calls on a
\* service, its state and the payloads staged for it are those of the same
\* calls made one after the other in the order in which they took the mutex;
\* N failures without a success leave ConsecutiveFailures = N, and once all
\* callers have returned every call has been counted.
C31_Serializable ==
  \A s \in ServiceIDs :
    Handled(s) =>
      LET h == hist[s]
          p == last[s].policy
      IN /\ state[s] = Replay(h, p, Len(h)).st
         /\ \A i \in 1..Len(h) :
              LET q == Replay(h, p, i).payload
              IN /\ h[i].kind = q.kind
                 /\ h[i].reminder = q.reminder
                 /\ h[i].failures = q.failures
         /\ AllFailures(h) => state[s].ConsecutiveFailures = Len(h)
         /\ AllIdle => Len(h) = ncalls[s]

\* two failures whose calls overlapped (the one that read the clock later took
\* the mutex first) and a third one: three failures counted
C31_Witness ==
  LET h == hist["a"]
  IN /\ Len(h) = 3 /\ AllFailures(h)
     /\ h[1].now > h[2].now
     /\ state["a"].ConsecutiveFailures = 3


\* a call for service s leaves the locked section in this step
Handles(s) ==
  \E w \in Workers : pc[w] = "critical" /\ job[w].svc = s /\ pc'[w] # "critical"

\* C32: a step changes the state entry of a service (State,
\* ConsecutiveFailures, DownNotified, LastDownAlertAt), or creates it, only
\* when it is the locked section of a HandleResult call for that very
\* service; calls for other services, interleaved as they may be, leave it
\* alone.
C32_OtherServicesUntouched ==
  [][\A b \in ServiceIDs :
       \/ Handles(b)
       \/ /\ b \in DOMAIN state <=> b \in DOMAIN state'
          /\ b \in DOMAIN state => state'[b] = state[b]]_vars

\* both services have state, "a" down and notified and "c" not, while a call
\* for "a" is in its locked section and a call for "c" waits for the mutex
C32_Witness ==
  /\ {"a", "c"} \subseteq DOMAIN state
  /\ state["a"].DownNotified /\ state["c"].State = StateUp
  /\ \E w, v \in Workers :
       /\ pc[w] = "critical" /\ job[w].svc = "a"
       /\ pc[v] = "lock" /\ job[v].svc = "c"


\* ======================================================================
\* The scheduler's worker, step by step
\* ======================================================================
MaxJobs == 2

\* New(cfg, log, observer, alertHandler) with either collaborator nil or not,
\* followed by Start(ctx, <<Svc1, Svc2>>) with two workers
WorkerInit ==
  /\ HeapIdle /\ ReloadIdle /\ CheckIdle /\ MailIdle /\ ValidateIdle
  /\ routes = <<>>
  /\ EngineFresh
  /\ RouterIdle
  /\ workerCount = clampWorkerCount(MaxPool)
  /\ jitter = 0
  /\ dropWhenFull \in BOOLEAN
  /\ queue = rebuild(EmptyBag, <<Svc1, Svc2>>, [id \in SchedIDs |-> 0])
  /\ active = <<Svc1, Svc2>>
  /\ lastCall = <<Svc1, Svc2>>
  /\ pendingUpdate = <<>>
  /\ jobs = <<>>
  /\ running = [w \in SchedWorkers |-> ""]
  /\ cancelled = FALSE
  /\ cpc = "loop"
  /\ nupdates = 0
  /\ napplied = 0
  /\ \E o, h \in BOOLEAN : wk = [NoWork EXCEPT !.observer = o, !.alertHandler = h]

WorkerFrame ==
  UNCHANGED <<engineVars, routerVars, heapVars, reloadVars, checkVars, mail, validateVars,
              queue, pendingUpdate, jobs, cancelled, cpc, workerCount, jitter,
              dropWhenFull, active, lastCall, nupdates, napplied>>

\* worker steps 2 and 3: the probe of the received job, under its own deadline
WorkerProbe(w) ==
  /\ running[w] # ""
  /\ wk.pc[w] = "idle"
  /\ wk.n < MaxJobs
  /\ \E success \in BOOLEAN :
       wk' = [wk EXCEPT !.pc[w] = "observe", !.id[w] = wk.n + 1, !.res[w] = success,
                        !.n = @ + 1,
                        !.log = Append(@, [call |-> "Check", job |-> wk.n + 1,
                                           svc |-> running[w], success |-> success])]
  /\ UNCHANGED running
  /\ WorkerFrame

\* variant: the worker goes on without calling the observer
WorkerObserveSkips(w) ==
  /\ wk.pc[w] = "observe"
  /\ wk' = [wk EXCEPT !.pc[w] = "handle"]
  /\ UNCHANGED running
  /\ WorkerFrame

\* worker step 4: observer.Observe(svc, result) if observer is non-nil
WorkerObserve(w) ==
  /\ wk.pc[w] = "observe"
  /\ wk' = [wk EXCEPT !.pc[w] = "handle",
                      !.log = IF wk.observer
                                THEN Append(@, [call |-> "Observe", job |-> wk.id[w],
                                                svc |-> running[w], success |-> wk.res[w]])
                                ELSE @]
  /\ UNCHANGED running
  /\ WorkerFrame

\* worker step 5: alertHandler.HandleResult(svc, result) if handler is
\* non-nil; the worker is free for the next job
WorkerHandle(w) ==
  /\ wk.pc[w] = "handle"
  /\ wk' = [wk EXCEPT !.pc[w] = "idle", !.id[w] = 0,
                      !.log = IF wk.alertHandler
                                THEN Append(@, [call |-> "HandleResult", job |-> wk.id[w],
                                                svc |-> running[w], success |-> wk.res[w]])
                                ELSE @]
  /\ running' = [running EXCEPT ![w] = ""]
  /\ WorkerFrame

WorkerNext ==
  \/ TimerFire
  \/ SchedTick
  \/ \E w \in SchedWorkers : WorkerTake(w)
  \/ \E w \in SchedWorkers : WorkerProbe(w)
  \/ \E w \in SchedWorkers : WorkerObserve(w)
  \/ \E w \in SchedWorkers : WorkerHandle(w)

WorkerSpec == WorkerInit /\ [][WorkerNext]_vars

\* positions in the log of the calls of one kind made for job n
CallsFor(call, n) == {i \in 1..Len(wk.log) : wk.log[i].call = call /\ wk.log[i].job = n}

Executed(n) == \A w \in SchedWorkers : wk.id[w] # n

Expected(present) == IF present THEN 1 ELSE 0

\* C33: for every job a worker has executed, the probe's result is passed
\* exactly once to observer.Observe and exactly once to
\* alertHandler.HandleResult, a nil collaborator's call being skipped; the
\* HandleResult call comes after the Observe call of the same job, so with an
\* observer no result reaches the alert handler unobserved.
C33_ObserveThenHandle ==
  \A n \in 1..wk.n :
    /\ Cardinality(CallsFor("Check", n)) = 1
    /\ Cardinality(CallsFor("Observe", n)) <= Expected(wk.observer)
    /\ Cardinality(CallsFor("HandleResult", n)) <= Expected(wk.alertHandler)
    /\ Executed(n)
         => /\ Cardinality(CallsFor("Observe", n)) = Expected(wk.observer)
            /\ Cardinality(CallsFor("HandleResult", n)) = Expected(wk.alertHandler)
    /\ \A i \in CallsFor("Observe", n) \cup CallsFor("HandleResult", n) :
         \E c \in CallsFor("Check", n) :
           /\ c < i
           /\ wk.log[i].svc = wk.log[c].svc
           /\ wk.log[i].success = wk.log[c].success
    /\ wk.observer
         => \A i \in CallsFor("HandleResult", n) : \E k \in CallsFor("Observe", n) : k < i

\* two jobs executed by two workers at the same time, with their calls
\* interleaved, and both observed and handled
C33_Witness ==
  /\ wk.observer /\ wk.alertHandler
  /\ Executed(1) /\ Executed(2) /\ wk.n >= 2
  /\ \E i \in CallsFor("Observe", 1), k \in CallsFor("Observe", 2),
        j \in CallsFor("HandleResult", 1) : i < k /\ k < j
  /\ \E c \in CallsFor("Check", 1), d \in CallsFor("Check", 2) :
       wk.log[c].success # wk.log[d].success


\* the timer of the due entry it fires in this step: the entry leaves the
\* queue as it was, while its service stays scheduled and no update is consumed
TimerFired(it) ==
  /\ it \in Items(queue)
  /\ it.nextRun = 0
  /\ cpc = "loop"
  /\ ~Consumed
  /\ it \notin Items(queue')
  /\ it.service.ID \in QueueIDs(queue')

IntervalOf(it) == parseIntervalOrDefault(it.service.Interval)

\* C34 as stated: the entry of a fired timer is pushed back with NextRun in
\* [t + Interval, t + Interval + jitter), t being the dispatch time, and
\* therefore later than t.
C34_InJitterWindow ==
  [][\A it \in Items(queue) :
       TimerFired(it) =>
         LET new == EntryOf(queue', it.service.ID)
         IN /\ IntervalOf(it) <= new.nextRun
            /\ new.nextRun < IntervalOf(it) + jitter
            /\ new.nextRun > 0]_vars

\* C34 amended: the entry of a fired timer is pushed back in the same step,
\* whatever the workers are doing, with NextRun = t + Interval when the
\* jitter is 0 and a NextRun in [t + Interval, t + Interval + jitter)
\* otherwise; in both cases it is later than the dispatch time t.
C34_InJitterWindowOrInterval ==
  [][\A it \in Items(queue) :
       TimerFired(it) =>
         LET new == EntryOf(queue', it.service.ID)
         IN /\ new.service = it.service
            /\ \/ jitter = 0 /\ new.nextRun = IntervalOf(it)
               \/ IntervalOf(it) <= new.nextRun /\ new.nextRun < IntervalOf(it) + jitter
            /\ new.nextRun > 0]_vars

\* the timer of "s1" fired again while a probe of "s1" was still running: the
\* second job waits on the channel and the entry is one interval and one unit
\* of jitter away
C34_Witness ==
  /\ jitter = MaxJitter
  /\ \E w \in SchedWorkers : running[w] = "s1"
  /\ jobs # <<>> /\ jobs[Len(jobs)] = "s1"
  /\ "s1" \in QueueIDs(queue)
  /\ EntryOf(queue, "s1").nextRun = IntervalOf(EntryOf(queue, "s1")) + 1


\* the payloads staged by the calls i..j of a history
StagedBetween(h, i, j) == {k \in i..j : k <= Len(h) /\ h[k].kind # "none"}

\* C35: a failure that opens an outage episode before the cooldown since the
\* last down payload has elapsed stages nothing and leaves DownNotified
\* false; a later failure of that episode handled with the cooldown elapsed
\* stages a first-down payload, not a still-down one; and an episode that
\* ends before any first-down payload stages nothing at all, its closing
\* success included.
C35_EpisodeWithinCooldown ==
  \A s \in ServiceIDs :
    Handled(s) =>
      /\ (~last[s].success /\ last[s].pre.State # StateDown
            /\ last[s].post.State = StateDown /\ ~CooldownAllows(last[s]))
           => last[s].payload = NoPayload /\ ~last[s].post.DownNotified
      /\ (~last[s].success /\ last[s].pre.State = StateDown
            /\ ~last[s].pre.DownNotified /\ CooldownAllows(last[s]))
           => IsFirstDown(last[s].payload) /\ last[s].post.DownNotified
      /\ \A i \in EpisodeStarts(hist[s]) :
           (hist[s][i].kind = "none" /\ FirstDownsIn(hist[s], i) = 0)
             => StagedBetween(hist[s], i, EpisodeEnd(hist[s], i)) = {}

\* a down payload and a recovery, then an episode opened within the cooldown
\* without a payload, whose next failure, handled after the cooldown, stages
\* the first-down payload
C35_Witness ==
  LET h == hist["a"]
  IN /\ Len(h) = 4
     /\ h[1].kind = "down" /\ h[2].kind = "recovery"
     /\ h[3].state = StateDown /\ h[3].kind = "none"
     /\ ~last["a"].success /\ ~last["a"].pre.DownNotified
     /\ last["a"].policy.cooldown > 0
     /\ IsFirstDown(last["a"].payload)


\* C36: in every reachable state of the engine a service whose State is Down
\* has ConsecutiveFailures at or above the FailureThreshold resolved for it,
\* and a service whose State is Up (set by a success or by a failure below
\* the threshold) has ConsecutiveFailures below it.
C36_StateMatchesCount ==
  \A s \in DOMAIN state :
    LET threshold == resolveRoute(routes, s).policy.failureThreshold
    IN /\ state[s].State = StateDown => state[s].ConsecutiveFailures >= threshold
       /\ state[s].State = StateUp => state[s].ConsecutiveFailures < threshold

\* a service that was down, recovered and has failed since, one failure short
\* of the threshold
C36_Witness ==
  /\ "a" \in DOMAIN state
  /\ state["a"].State = StateUp
  /\ state["a"].ConsecutiveFailures >= 1
  /\ state["a"].ConsecutiveFailures = last["a"].policy.failureThreshold - 1
  /\ \E i \in 1..Len(hist["a"]) : hist["a"][i].state = StateDown

\* C37: in every reachable state of the engine DownNotified = true implies
\* State = Down and a LastDownAlertAt that is set; DownNotified is false while
\* State is Unknown or Up.
C37_NotifiedOnlyWhenDown ==
  \A s \in DOMAIN state :
    /\ state[s].DownNotified
         => state[s].State = StateDown /\ state[s].LastDownAlertAt # ZeroTime
    /\ state[s].State \in {StateUnknown, StateUp} => ~state[s].DownNotified

\* a service that was alerted as down, recovered (DownNotified reset) and is
\* down and notified again, the alert stamped with the later time
C37_Witness ==
  LET h == hist["a"]
  IN /\ Len(h) = 3
     /\ h[1].kind = "down" /\ h[2].state = StateUp
     /\ state["a"].DownNotified
     /\ state["a"].LastDownAlertAt = 2


\* the calls of a history that staged a payload of the given sort
FirstDowns(h) == {k \in 1..Len(h) : h[k].kind = "down" /\ ~h[k].reminder}
StillDowns(h) == {k \in 1..Len(h) : h[k].kind = "down" /\ h[k].reminder}
Recoveries(h) == {k \in 1..Len(h) : h[k].kind = "recovery"}

\* call i staged a first-down payload and the service stayed down from then
\* until call k
OpenedBy(h, i, k) ==
  /\ i \in FirstDowns(h)
  /\ i < k
  /\ \A m \in i..(k - 1) : h[m].state = StateDown

\* the records added to the delivery log in this step
SentNow == SubSeq(delivered', Len(delivered) + 1, Len(delivered'))

\* C38: a HandleResult call stages at most one payload (all it hands to the
\* channels is one payload, and each handled call adds one entry to the
\* history); every still-down payload and every recovery payload of a service
\* comes after a first-down payload of the same outage episode, so there are
\* never more recoveries than first-downs.
C38_OnePayloadAfterFirstDown ==
  /\ [](\A s \in ServiceIDs :
          LET h == hist[s]
          IN /\ \A k \in StillDowns(h) \cup Recoveries(h) : \E i \in 1..Len(h) : OpenedBy(h, i, k)
             /\ Cardinality(Recoveries(h)) <= Cardinality(FirstDowns(h)))
  /\ [][/\ \A i, k \in 1..Len(SentNow) :
             /\ SentNow[i].svc = SentNow[k].svc
             /\ SentNow[i].kind = SentNow[k].kind
             /\ SentNow[i].reminder = SentNow[k].reminder
        /\ \A s \in ServiceIDs : Len(hist'[s]) <= Len(hist[s]) + 1]_vars

\* one episode with a first-down, a still-down and a recovery payload
C38_Witness ==
  LET h == hist["a"]
  IN /\ Len(h) >= 3
     /\ 1 \in FirstDowns(h) /\ 2 \in StillDowns(h) /\ 3 \in Recoveries(h)
     /\ Len(delivered) >= 3


\* the payloads staged for a service, in the order of the locked sections
RECURSIVE StagedSeq(_)
StagedSeq(h) ==
  IF h = <<>> THEN <<>>
  ELSE LET e == h[Len(h)]
           rest == StagedSeq(SubSeq(h, 1, Len(h) - 1))
       IN IF e.kind = "none" THEN rest
          ELSE Append(rest, [kind |-> e.kind, reminder |-> e.reminder])

\* the payloads handed to channel ch for service s, in the order of the sends
RECURSIVE HandedTo(_, _, _)
HandedTo(d, s, ch) ==
  IF d = <<>> THEN <<>>
  ELSE LET e == d[Len(d)]
           rest == HandedTo(SubSeq(d, 1, Len(d) - 1), s, ch)
       IN IF e.svc = s /\ e.channel = ch
            THEN Append(rest, [kind |-> e.kind, reminder |-> e.reminder])
            ELSE rest

IsPrefix(a, b) == Len(a) <= Len(b) /\ SubSeq(b, 1, Len(a)) = a

\* C39: for every service and channel, the payloads reach the channel in the
\* order in which they were staged under the lock, so that a recovery payload
\* is never handed over before the first-down payload of its episode.
C39_DeliveredInStagingOrder ==
  \A s \in ServiceIDs :
    \A ch \in {d.channel : d \in {delivered[i] : i \in 1..Len(delivered)}} :
      IsPrefix(HandedTo(delivered, s, ch), StagedSeq(hist[s]))


\* C40: the LastDownAlertAt of a service never decreases, whatever the
\* interleaving of the concurrent HandleResult calls.
C40_LastDownAlertMonotonic ==
  [][\A s \in DOMAIN state :
       /\ s \in DOMAIN state'
       /\ state'[s].LastDownAlertAt >= state[s].LastDownAlertAt]_vars
====
